---- MODULE Spec2Model ----
(***************************************************************************)
(* A model of the DSAP archive container of devstacks packager             *)
(* (base/src/archive.ts): the serializer writeArchive, the parser          *)
(* readArchive, the extractor extractArchive and the collector             *)
(* createArchive / archiveDirectory.                                       *)
(*                                                                         *)
(* Representation.  A Buffer is a sequence of bytes 0..255; the code's     *)
(* 0-based offset k is element k+1.  A JavaScript string is a sequence of  *)
(* code points ("a" is <<97>>, "/" is 47, "." is 46, "*" is 42); its UTF-8 *)
(* encoding is computed by Utf8Encode, so the byte length of a string may  *)
(* differ from its length.  A file-system location is a sequence of path   *)
(* segments, each a string.                                                *)
(***************************************************************************)
EXTENDS Integers, Sequences, FiniteSets, TLC

VARIABLES
    pc,        \* position of the calling program
    archive,   \* the in-memory Archive object [version, entries]
    file,      \* the archive file on disk: [exists, bytes]
    result,    \* outcome of the last call: [op, status, error, detail, archive]
    tampers,   \* how many times another party has altered the archive file
    fs,        \* the directory tree: location -> [kind, data]
    job        \* the running createArchive call: its locals at the current await

vars == <<pc, archive, file, result, tampers, fs, job>>

----------------------------------------------------------------------------
(* Program constants *)

ARCHIVE_VERSION == 1

HEADER_SIZE == 8

\* Buffer.from('DSAP')
ARCHIVE_SIGNATURE == <<68, 83, 65, 80>>

----------------------------------------------------------------------------
(* Bounds of the model *)

MaxEntries == 2

MaxTampers == 1

\* unsigned 32-bit values from here on are represented by this one
U32Cap == 1073741824

----------------------------------------------------------------------------
(* Generic helpers *)

Min(a, b) == IF a < b THEN a ELSE b

Max(a, b) == IF a > b THEN a ELSE b

RECURSIVE Flatten(_)
Flatten(ss) == IF ss = <<>> THEN <<>> ELSE Head(ss) \o Flatten(Tail(ss))

----------------------------------------------------------------------------
(* Node Buffer primitives *)

\* Buffer.byteLength(str) / the bytes buffer.write(str) stores: UTF-8.
\* Code points below 0x80 take one byte, below 0x800 two bytes, others three.
Utf8EncodeChar(c) ==
    IF c < 128 THEN <<c>>
    ELSE IF c < 2048 THEN <<192 + (c \div 64), 128 + (c % 64)>>
    ELSE <<224 + (c \div 4096), 128 + ((c \div 64) % 64), 128 + (c % 64)>>

Utf8Encode(str) == Flatten([k \in 1..Len(str) |-> Utf8EncodeChar(str[k])])

\* (mutation: the string's length in characters taken for its byte length)
byteLength_Chars(str) == Len(str)

\* Buffer.byteLength(str): the number of bytes of the UTF-8 encoding, counted
\* character by character
byteLength(str) ==
    Len(str) + Cardinality({k \in DOMAIN str : str[k] >= 128})
             + Cardinality({k \in DOMAIN str : str[k] >= 2048})

IsCont(b) == b >= 128 /\ b < 192

\* buffer.toString('utf8'): one- to three-byte sequences decode to their code
\* point; a byte that starts no well-formed sequence decodes to U+FFFD.
RECURSIVE Utf8Decode(_)
Utf8Decode(bytes) ==
    IF bytes = <<>> THEN <<>>
    ELSE LET b == bytes[1] IN
         IF b < 128 THEN <<b>> \o Utf8Decode(Tail(bytes))
         ELSE IF b >= 194 /\ b < 224 /\ Len(bytes) >= 2 /\ IsCont(bytes[2])
              THEN <<(b - 192) * 64 + (bytes[2] - 128)>>
                       \o Utf8Decode(SubSeq(bytes, 3, Len(bytes)))
         ELSE IF b >= 224 /\ b < 240 /\ Len(bytes) >= 3
                 /\ IsCont(bytes[2]) /\ IsCont(bytes[3])
                 /\ (b - 224) * 4096 + (bytes[2] - 128) * 64 >= 2048
              THEN <<(b - 224) * 4096 + (bytes[2] - 128) * 64 + (bytes[3] - 128)>>
                       \o Utf8Decode(SubSeq(bytes, 4, Len(bytes)))
         ELSE <<65533>> \o Utf8Decode(Tail(bytes))

\* The four / two bytes writeUInt32LE / writeUInt16LE store, little-endian.
U32LE(n) == <<n % 256, (n \div 256) % 256, (n \div 65536) % 256, (n \div 16777216) % 256>>

U16LE(n) == <<n % 256, (n \div 256) % 256>>

\* Buffer.alloc(n): n zero bytes.
alloc(n) == [k \in 1..n |-> 0]

\* The read/write methods throw ERR_OUT_OF_RANGE unless offset..offset+n-1
\* lies within the buffer.
InBounds(buffer, offset, n) == offset >= 0 /\ offset <= Len(buffer) - n

\* readUInt32LE(offset).  TLC's integers are narrower than 2^32: a stored
\* value of U32Cap or more is represented by U32Cap, which like it exceeds
\* every buffer length of the model and differs from the supported version.
readUInt32LE(buffer, offset) ==
    IF buffer[offset + 4] >= U32Cap \div 16777216 THEN U32Cap
    ELSE buffer[offset + 1] + 256 * buffer[offset + 2]
             + 65536 * buffer[offset + 3] + 16777216 * buffer[offset + 4]

readUInt16LE(buffer, offset) == buffer[offset + 1] + 256 * buffer[offset + 2]

\* buffer.slice(start, end): both ends are clamped to the buffer, silently.
slice(buffer, start, end) ==
    LET s == Min(Max(start, 0), Len(buffer))
        e == Min(Max(end, 0), Len(buffer))
    IN  IF e <= s THEN <<>> ELSE SubSeq(buffer, s + 1, e)

\* buffer.toString('utf8', start, end): clamped like slice, then decoded.
toString(buffer, start, end) == Utf8Decode(slice(buffer, start, end))

\* source.copy(buffer, offset) / buffer.write(str, offset): stores the bytes
\* that fit, leaves the rest of the buffer alone.
copy(buffer, bytes, offset) ==
    [k \in 1..Len(buffer) |->
        IF k > offset /\ k <= offset + Len(bytes) THEN bytes[k - offset] ELSE buffer[k]]

----------------------------------------------------------------------------
(* Outcomes of a call *)

NoArchive == [version |-> 0, entries |-> <<>>]

Ok(op, a) == [op |-> op, status |-> "ok", error |-> "", detail |-> 0, archive |-> a]

Err(op, msg, d) ==
    [op |-> op, status |-> "error", error |-> msg, detail |-> d, archive |-> NoArchive]

NoResult == [op |-> "none", status |-> "none", error |-> "", detail |-> 0, archive |-> NoArchive]

NoFile == [exists |-> FALSE, bytes |-> <<>>]

----------------------------------------------------------------------------
(* writeArchive: the serializer *)

\* (mutation: the 4 bytes of the declared size left out of the metadata size)
metadataSize_NoSizeField(entry) == 2 + byteLength(entry.path) + 2 + byteLength(entry.mimeType)

\* 2 bytes path length + path + 4 bytes size + 2 bytes mime type length + mime type
metadataSize(entry) == 2 + byteLength(entry.path) + 4 + 2 + byteLength(entry.mimeType)

RECURSIVE SumSeq(_)
SumSeq(ns) == IF ns = <<>> THEN 0 ELSE Head(ns) + SumSeq(Tail(ns))

\* (mutation: the 4 bytes of the entry count left out of the total)
totalSize_NoCount(a) ==
    HEADER_SIZE + Len(a.entries) * 8
        + SumSeq([k \in 1..Len(a.entries) |-> metadataSize(a.entries[k])])
        + SumSeq([k \in 1..Len(a.entries) |-> Len(a.entries[k].data)])

\* The total size writeArchive allocates.
totalSize(a) ==
    HEADER_SIZE + 4 + Len(a.entries) * 8
        + SumSeq([k \in 1..Len(a.entries) |-> metadataSize(a.entries[k])])
        + SumSeq([k \in 1..Len(a.entries) |-> Len(a.entries[k].data)])

\* One pass of the loop "for (let i = 0; ...)": the table row of entry i and
\* its block at currentOffset.  Yields the buffer and the advanced offset.
WriteEntryAt(buffer, entry, i, currentOffset) ==
    LET entryOffset == HEADER_SIZE + 4 + i * 8
        entrySize == metadataSize(entry) + Len(entry.data)
        b1 == copy(buffer, U32LE(currentOffset), entryOffset)
        b2 == copy(b1, U32LE(entrySize), entryOffset + 4)
        b3 == copy(b2, U16LE(byteLength(entry.path)), currentOffset)
        o3 == currentOffset + 2
        b4 == copy(b3, Utf8Encode(entry.path), o3)
        o4 == o3 + byteLength(entry.path)
        b5 == copy(b4, U32LE(entry.size), o4)
        o5 == o4 + 4
        b6 == copy(b5, U16LE(byteLength(entry.mimeType)), o5)
        o6 == o5 + 2
        b7 == copy(b6, Utf8Encode(entry.mimeType), o6)
        o7 == o6 + byteLength(entry.mimeType)
        b8 == copy(b7, entry.data, o7)
    IN  [buffer |-> b8, offset |-> o7 + Len(entry.data)]

RECURSIVE WriteEntries(_, _, _, _)
WriteEntries(buffer, entries, i, currentOffset) ==
    IF i >= Len(entries) THEN buffer
    ELSE LET w == WriteEntryAt(buffer, entries[i + 1], i, currentOffset)
         IN  WriteEntries(w.buffer, entries, i + 1, w.offset)

\* (mutation: the supported version written whatever the archive carries)
Serialize_CurrentVersion(a) ==
    LET entryTableSize == Len(a.entries) * 8
        b0 == alloc(totalSize(a))
        b1 == copy(b0, ARCHIVE_SIGNATURE, 0)
        b2 == copy(b1, U32LE(ARCHIVE_VERSION), 4)
        b3 == copy(b2, U32LE(Len(a.entries)), HEADER_SIZE)
    IN  WriteEntries(b3, a.entries, 0, HEADER_SIZE + 4 + entryTableSize)

\* The buffer writeArchive hands to writeFile.
Serialize(a) ==
    LET entryTableSize == Len(a.entries) * 8
        b0 == alloc(totalSize(a))
        b1 == copy(b0, ARCHIVE_SIGNATURE, 0)
        b2 == copy(b1, U32LE(a.version), 4)
        b3 == copy(b2, U32LE(Len(a.entries)), HEADER_SIZE)
    IN  WriteEntries(b3, a.entries, 0, HEADER_SIZE + 4 + entryTableSize)

----------------------------------------------------------------------------
(* readArchive: the parser *)

RangeError == "ERR_OUT_OF_RANGE"

\* (mutation: the content delimited by the table's entry length, not by
\* the declared size)
ReadEntry_LengthDelimits(buffer, i) ==
    LET entryOffset == HEADER_SIZE + 4 + i * 8
        dataOffset == readUInt32LE(buffer, entryOffset)
        entryLength == readUInt32LE(buffer, entryOffset + 4)
        pathLength == readUInt16LE(buffer, dataOffset)
        mimeTypeLength == readUInt16LE(buffer, dataOffset + 2 + pathLength + 4)
        dataStart == dataOffset + 2 + pathLength + 4 + 2 + mimeTypeLength
    IN  IF \/ ~InBounds(buffer, entryOffset, 8)
           \/ ~InBounds(buffer, dataOffset, 2)
           \/ ~InBounds(buffer, dataOffset + 2 + pathLength, 6)
        THEN [ok |-> FALSE, entry |-> <<>>]
        ELSE [ok |-> TRUE,
              entry |-> [path |-> toString(buffer, dataOffset + 2, dataOffset + 2 + pathLength),
                         size |-> readUInt32LE(buffer, dataOffset + 2 + pathLength),
                         mimeType |-> toString(buffer, dataStart - mimeTypeLength, dataStart),
                         data |-> slice(buffer, dataStart, dataOffset + entryLength)]]

\* The body of the loop over the entry table, for row i.
ReadEntry(buffer, i) ==
    LET entryOffset == HEADER_SIZE + 4 + i * 8
        fail == [ok |-> FALSE, entry |-> <<>>]
    IN
    IF ~InBounds(buffer, entryOffset, 4) THEN fail
    ELSE
    LET dataOffset == readUInt32LE(buffer, entryOffset) IN
    IF ~InBounds(buffer, dataOffset, 2) THEN fail
    ELSE
    LET pathLength == readUInt16LE(buffer, dataOffset)
        path == toString(buffer, dataOffset + 2, dataOffset + 2 + pathLength)
    IN
    IF ~InBounds(buffer, dataOffset + 2 + pathLength, 4) THEN fail
    ELSE
    LET size == readUInt32LE(buffer, dataOffset + 2 + pathLength) IN
    IF ~InBounds(buffer, dataOffset + 2 + pathLength + 4, 2) THEN fail
    ELSE
    LET mimeTypeLength == readUInt16LE(buffer, dataOffset + 2 + pathLength + 4)
        mimeType == toString(buffer, dataOffset + 2 + pathLength + 4 + 2,
                             dataOffset + 2 + pathLength + 4 + 2 + mimeTypeLength)
        dataStart == dataOffset + 2 + pathLength + 4 + 2 + mimeTypeLength
        data == slice(buffer, dataStart, dataStart + size)
    IN  [ok |-> TRUE,
         entry |-> [path |-> path, size |-> size, mimeType |-> mimeType, data |-> data]]

RECURSIVE ReadEntries(_, _, _, _)
ReadEntries(buffer, i, numEntries, entries) ==
    IF i >= numEntries THEN [ok |-> TRUE, entries |-> entries]
    ELSE LET r == ReadEntry(buffer, i)
         IN  IF ~r.ok THEN [ok |-> FALSE, entries |-> entries]
             ELSE ReadEntries(buffer, i + 1, numEntries, Append(entries, r.entry))

\* (mutation: the version compared before the signature)
Parse_VersionFirst(buffer) ==
    IF InBounds(buffer, 4, 4) /\ readUInt32LE(buffer, 4) # ARCHIVE_VERSION
    THEN Err("read", "Unsupported archive version", readUInt32LE(buffer, 4))
    ELSE IF slice(buffer, 0, 4) # ARCHIVE_SIGNATURE
    THEN Err("read", "Invalid archive signature", 0)
    ELSE Err("read", RangeError, 4)

\* (mutation: the entry count read before the version is compared)
Parse_CountFirst(buffer) ==
    IF slice(buffer, 0, 4) # ARCHIVE_SIGNATURE
    THEN Err("read", "Invalid archive signature", 0)
    ELSE IF ~InBounds(buffer, 4, 4) THEN Err("read", RangeError, 4)
    ELSE IF ~InBounds(buffer, 8, 4) THEN Err("read", RangeError, 8)
    ELSE IF readUInt32LE(buffer, 4) # ARCHIVE_VERSION
    THEN Err("read", "Unsupported archive version", readUInt32LE(buffer, 4))
    ELSE Err("read", RangeError, 12)

\* readArchive on the bytes readFile returned.
Parse(buffer) ==
    IF slice(buffer, 0, 4) # ARCHIVE_SIGNATURE
    THEN Err("read", "Invalid archive signature", 0)
    ELSE IF ~InBounds(buffer, 4, 4) THEN Err("read", RangeError, 4)
    ELSE LET version == readUInt32LE(buffer, 4) IN
    IF version # ARCHIVE_VERSION
    THEN Err("read", "Unsupported archive version", version)
    ELSE IF ~InBounds(buffer, 8, 4) THEN Err("read", RangeError, 8)
    ELSE LET numEntries == readUInt32LE(buffer, 8)
             r == ReadEntries(buffer, 0, numEntries, <<>>)
         IN  IF ~r.ok THEN Err("read", RangeError, 12)
             ELSE Ok("read", [version |-> version, entries |-> r.entries])

----------------------------------------------------------------------------
(* The inputs the calling program draws from *)

\* version numbers an Archive object may carry: the supported one and 999
Versions == {ARCHIVE_VERSION, 999}

\* "a" (one UTF-8 byte) and "e-acute" (two UTF-8 bytes)
FormatPaths == {<<97>>, <<233>>}

\* declared sizes, equal to the content length or not
FormatSizes == {0, 2}

\* "t" and the empty string
FormatMimes == {<<116>>, <<>>}

FormatDatas == {<<>>, <<7, 200>>}

FormatEntries ==
    [path : FormatPaths, size : FormatSizes, mimeType : FormatMimes, data : FormatDatas]

\* Archives already serialized to disk when the parser is handed the file.
SeedEntries ==
    { [path |-> <<97>>, size |-> 2, mimeType |-> <<116>>, data |-> <<7, 200>>],
      [path |-> <<233>>, size |-> 0, mimeType |-> <<>>, data |-> <<>>] }

SeedArchives ==
    [version : Versions, entries : {<<>>} \cup {<<e>> : e \in SeedEntries}]
        \cup { [version |-> ARCHIVE_VERSION,
                entries |-> <<[path |-> <<97>>, size |-> 2, mimeType |-> <<116>>, data |-> <<7, 200>>],
                              [path |-> <<233>>, size |-> 2, mimeType |-> <<>>, data |-> <<7, 200>>]>>] }

\* byte values another party may store into the file
PokeValues == {0, 2, 127}

----------------------------------------------------------------------------
(* Actions of the serializer / parser pipeline *)

\* The caller builds the Archive object: archive.entries.push(e).
AddEntry(pool) ==
    /\ pc = "build"
    /\ Len(archive.entries) < MaxEntries
    /\ \E e \in pool : archive' = [archive EXCEPT !.entries = Append(@, e)]
    /\ UNCHANGED <<pc, file, result, tampers, fs, job>>

\* writeArchive(archive, outputPath): mkdir of the parent, the buffer, writeFile.
WriteArchive ==
    /\ pc = "build"
    /\ file' = [exists |-> TRUE, bytes |-> Serialize(archive)]
    /\ result' = Ok("write", archive)
    /\ pc' = "written"
    /\ UNCHANGED <<archive, tampers, fs, job>>

\* readArchive(archivePath) on the file as it is on disk now.
ReadArchive ==
    /\ pc = "written"
    /\ file.exists
    /\ result' = Parse(file.bytes)
    /\ pc' = "read"
    /\ UNCHANGED <<archive, file, tampers, fs, job>>

\* Another party cuts the file short ...
Truncate ==
    /\ pc = "written"
    /\ tampers < MaxTampers
    /\ \E n \in 0..(Len(file.bytes) - 1) :
          file' = [file EXCEPT !.bytes = SubSeq(@, 1, n)]
    /\ tampers' = tampers + 1
    /\ UNCHANGED <<pc, archive, result, fs, job>>

\* ... or overwrites one byte of it.
Poke ==
    /\ pc = "written"
    /\ tampers < MaxTampers
    /\ \E k \in 1..Len(file.bytes), v \in PokeValues :
          /\ file.bytes[k] # v
          /\ file' = [file EXCEPT !.bytes[k] = v]
    /\ tampers' = tampers + 1
    /\ UNCHANGED <<pc, archive, result, fs, job>>

NoJob == [state |-> "idle"]

NoFs == <<>>

Init ==
    /\ pc = "build"
    /\ archive \in [version : Versions, entries : {<<>>}]
    /\ file = NoFile
    /\ result = NoResult
    /\ tampers = 0
    /\ fs = NoFs
    /\ job = NoJob

Next ==
    \/ AddEntry(FormatEntries)
    \/ WriteArchive
    \/ ReadArchive

Spec == Init /\ [][Next]_vars

\* The parser on a file that reached it through untrusted hands.
InitParse ==
    /\ pc = "written"
    /\ archive \in SeedArchives
    /\ file = [exists |-> TRUE, bytes |-> Serialize(archive)]
    /\ result = Ok("write", archive)
    /\ tampers = 0
    /\ fs = NoFs
    /\ job = NoJob

NextParse ==
    \/ Truncate
    \/ Poke
    \/ ReadArchive

SpecParse == InitParse /\ [][NextParse]_vars

----------------------------------------------------------------------------
(* Properties of the serializer / parser pipeline *)

\* The entry block of section 4.2: 2-byte path length, UTF-8 path, 4-byte
\* declared size, 2-byte MIME length, UTF-8 MIME type, raw content.
Block(e) ==
    U16LE(Len(Utf8Encode(e.path))) \o Utf8Encode(e.path) \o U32LE(e.size)
        \o U16LE(Len(Utf8Encode(e.mimeType))) \o Utf8Encode(e.mimeType) \o e.data

RowOffset(i) == readUInt32LE(file.bytes, 12 + 8 * i)

RowLength(i) == readUInt32LE(file.bytes, 12 + 8 * i + 4)

UniquePaths(a) ==
    \A i, j \in 1..Len(a.entries) : a.entries[i].path = a.entries[j].path => i = j

SizesMatch(a) == \A k \in 1..Len(a.entries) : a.entries[k].size = Len(a.entries[k].data)

SignatureOk(bytes) ==
    /\ Len(bytes) >= 4
    /\ bytes[1] = 68 /\ bytes[2] = 83 /\ bytes[3] = 65 /\ bytes[4] = 80

\* C2 as stated: for any archive of the supported version built from
\* arbitrary (path, size, mimeType, content) tuples with non-empty unique
\* paths, writeArchive followed by readArchive returns the same version and
\* identical entries in identical order.
C2_RoundTripAnySize ==
    (pc = "read" /\ archive.version = ARCHIVE_VERSION /\ UniquePaths(archive))
        => (result.status = "ok" /\ result.archive = archive)

\* C2 amended: for any archive of the supported version whose entries each
\* declare a size equal to the byte length of their content, writeArchive
\* followed by readArchive returns the same version and identical entries
\* (path, size, mimeType, content bytes) in identical order.
C2_RoundTrip ==
    (pc = "read" /\ archive.version = ARCHIVE_VERSION /\ SizesMatch(archive))
        => (result.status = "ok" /\ result.archive = archive)

C2_Witness ==
    /\ pc = "read"
    /\ archive.version = ARCHIVE_VERSION
    /\ SizesMatch(archive)
    /\ Len(archive.entries) = 2
    /\ archive.entries[1].path = <<233>> /\ archive.entries[1].data = <<>>
    /\ archive.entries[2].data = <<7, 200>>
    /\ result.archive = archive

\* C7: in every buffer written by writeArchive the table rows tile the data
\* region in entry order: row 0 starts at 12 + 8N, row i has the length of
\* entries[i]'s block and holds that block, row i+1 starts where row i ends,
\* and the last row ends at the end of the buffer.
C7_RowsTile ==
    pc \in {"written", "read"} =>
        LET N == Len(archive.entries)
            b == file.bytes
        IN  /\ Len(b) >= 12 + 8 * N
            /\ N = 0 => Len(b) = 12
            /\ N > 0 => RowOffset(0) = 12 + 8 * N
            /\ \A i \in 0..(N - 1) :
                  /\ RowLength(i) = 2 + Len(Utf8Encode(archive.entries[i + 1].path)) + 4 + 2
                                      + Len(Utf8Encode(archive.entries[i + 1].mimeType))
                                      + Len(archive.entries[i + 1].data)
                  /\ RowOffset(i) + RowLength(i) <= Len(b)
                  /\ SubSeq(b, RowOffset(i) + 1, RowOffset(i) + RowLength(i))
                         = Block(archive.entries[i + 1])
            /\ \A i \in 0..(N - 2) : RowOffset(i + 1) = RowOffset(i) + RowLength(i)
            /\ N > 0 => RowOffset(N - 1) + RowLength(N - 1) = Len(b)

C7_Witness ==
    /\ pc = "written"
    /\ Len(archive.entries) = 2
    /\ archive.entries[1].path = <<233>> /\ archive.entries[1].data = <<7, 200>>
    /\ archive.entries[1].size = 0
    /\ RowOffset(1) = RowOffset(0) + RowLength(0)
    /\ RowLength(0) # RowLength(1)

\* C8: serializing an archive with zero entries gives exactly the 12 bytes
\* signature, version, count 0, and parsing that buffer (of the supported
\* version) yields an archive with zero entries.
C8_EmptyArchive ==
    /\ (pc \in {"written", "read"} /\ archive.entries = <<>>)
          => file.bytes = <<68, 83, 65, 80>> \o U32LE(archive.version) \o <<0, 0, 0, 0>>
    /\ (pc = "read" /\ archive.entries = <<>> /\ archive.version = ARCHIVE_VERSION)
          => (result.status = "ok" /\ result.archive.entries = <<>>)

C8_Witness ==
    /\ pc = "read"
    /\ archive.entries = <<>>
    /\ archive.version = ARCHIVE_VERSION
    /\ Len(file.bytes) = 12
    /\ result.status = "ok"

----------------------------------------------------------------------------
(* Properties of the parser on arbitrary buffers *)

\* The value stored little-endian at bytes 4..7.
VersionField(bytes) ==
    IF bytes[8] >= 64 THEN U32Cap
    ELSE bytes[5] + bytes[6] * 256 + bytes[7] * 65536 + bytes[8] * 16777216

\* C4: on any buffer whose first 4 bytes differ from 'DSAP' readArchive fails
\* with 'Invalid archive signature' and returns no archive, whatever the
\* version and count fields hold.
C4_InvalidSignature ==
    (pc = "read" /\ ~SignatureOk(file.bytes))
        => /\ result.status = "error"
           /\ result.error = "Invalid archive signature"
           /\ result.archive = NoArchive

C4_Witness ==
    /\ pc = "read"
    /\ Len(file.bytes) >= 12
    /\ ~SignatureOk(file.bytes)
    /\ VersionField(file.bytes) = 999
    /\ result.error = "Invalid archive signature"

\* C5: on any buffer with the correct signature and a version field v other
\* than 1 readArchive fails with 'Unsupported archive version: v', also when
\* the buffer ends before the entry count or holds a broken entry table.
C5_UnsupportedVersion ==
    (pc = "read" /\ SignatureOk(file.bytes) /\ Len(file.bytes) >= 8
        /\ VersionField(file.bytes) # 1)
        => /\ result.status = "error"
           /\ result.error = "Unsupported archive version"
           /\ result.detail = VersionField(file.bytes)

C5_Witness ==
    /\ pc = "read"
    /\ SignatureOk(file.bytes)
    /\ Len(file.bytes) \in 8..11
    /\ VersionField(file.bytes) = 999
    /\ result.error = "Unsupported archive version"
    /\ result.detail = 999

\* C6 as stated: on a buffer shorter than 12 bytes readArchive fails with a
\* Truncated error, in preference to InvalidSignature and UnsupportedVersion.
C6_TruncatedFirst ==
    (pc = "read" /\ Len(file.bytes) < 12)
        => (result.status = "error" /\ result.error = "Truncated")

\* C3 as stated: readArchive never returns an archive containing an entry
\* whose content was cut short at the end of the buffer: every returned
\* entry holds the declared number of content bytes.
C3_NoSilentCut ==
    (pc = "read" /\ result.status = "ok")
        => \A k \in 1..Len(result.archive.entries) :
              Len(result.archive.entries[k].data) = result.archive.entries[k].size

----------------------------------------------------------------------------
(* node:path (POSIX) and the file system *)

\* str.split('/'): the segments between slashes (47), empty ones included.
RECURSIVE SplitAt(_, _, _)
SplitAt(str, k, cur) ==
    IF k > Len(str) THEN <<cur>>
    ELSE IF str[k] = 47 THEN <<cur>> \o SplitAt(str, k + 1, <<>>)
    ELSE SplitAt(str, k + 1, Append(cur, str[k]))

Split(str) == SplitAt(str, 1, <<>>)

\* path.normalize on an absolute path, segment by segment: '' and '.' are
\* dropped, '..' removes the segment before it (nothing above the root).
RECURSIVE NormalizeFrom(_, _)
NormalizeFrom(segs, stack) ==
    IF segs = <<>> THEN stack
    ELSE LET seg == Head(segs) IN
         IF seg = <<>> \/ seg = <<46>> THEN NormalizeFrom(Tail(segs), stack)
         ELSE IF seg = <<46, 46>>
              THEN NormalizeFrom(Tail(segs),
                                 IF stack = <<>> THEN stack ELSE SubSeq(stack, 1, Len(stack) - 1))
         ELSE NormalizeFrom(Tail(segs), Append(stack, seg))

\* path.join(outputPath, entryPath) for an absolute outputPath: the location
\* named by outputPath + '/' + entryPath after normalization.
join(outputPath, entryPath) == NormalizeFrom(Split(outputPath \o <<47>> \o entryPath), <<>>)

\* path.dirname of a normalized location ('/' is its own parent).
dirname(loc) == IF loc = <<>> THEN loc ELSE SubSeq(loc, 1, Len(loc) - 1)

Exists(tree, loc) == loc \in DOMAIN tree

IsDir(tree, loc) == Exists(tree, loc) /\ tree[loc].kind = "dir"

IsFile(tree, loc) == Exists(tree, loc) /\ tree[loc].kind = "file"

DirNode == [kind |-> "dir", data |-> <<>>]

FileNode(data) == [kind |-> "file", data |-> data]

\* mkdir(loc, { recursive: true }): fails when loc or one of its ancestors
\* is a file, else creates the missing directories.
mkdirFails(tree, loc) == \E n \in 0..Len(loc) : IsFile(tree, SubSeq(loc, 1, n))

mkdir(tree, loc) ==
    [l \in DOMAIN tree \cup {SubSeq(loc, 1, n) : n \in 0..Len(loc)} |->
        IF l \in DOMAIN tree THEN tree[l] ELSE DirNode]

\* writeFile(loc, data): fails with EISDIR on a directory, else creates or
\* replaces the file.
writeFileFails(tree, loc) == IsDir(tree, loc) \/ ~IsDir(tree, dirname(loc))

\* (mutation: an existing file is left as it is)
writeFile_KeepExisting(tree, loc, data) ==
    [l \in DOMAIN tree \cup {loc} |->
        IF l = loc /\ l \notin DOMAIN tree THEN FileNode(data) ELSE tree[l]]

writeFile(tree, loc, data) ==
    [l \in DOMAIN tree \cup {loc} |-> IF l = loc THEN FileNode(data) ELSE tree[l]]

----------------------------------------------------------------------------
(* extractArchive: the extractor *)

\* The loop "for (const entry of archive.entries)" from entry k on: join,
\* mkdir of the parent, writeFile; the first failure ends the call and what
\* was written stays.
RECURSIVE ExtractEntries(_, _, _, _)
ExtractEntries(tree, outputPath, entries, k) ==
    IF k > Len(entries) THEN [tree |-> tree, error |-> "", at |-> 0]
    ELSE LET entry == entries[k]
             fullPath == join(outputPath, entry.path)
             dir == dirname(fullPath)
         IN  IF mkdirFails(tree, dir) THEN [tree |-> tree, error |-> "EEXIST", at |-> k]
             ELSE LET t1 == mkdir(tree, dir) IN
                  IF writeFileFails(t1, fullPath)
                  THEN [tree |-> t1, error |-> "EISDIR", at |-> k]
                  ELSE ExtractEntries(writeFile(t1, fullPath, entry.data),
                                      outputPath, entries, k + 1)

\* extractArchive(archive, outputPath) on the tree.
Extract(tree, a, outputPath) ==
    LET root == join(outputPath, <<>>) IN
    IF mkdirFails(tree, root) THEN [tree |-> tree, error |-> "EEXIST", at |-> 0]
    ELSE ExtractEntries(mkdir(tree, root), outputPath, a.entries, 1)

\* "/t/x": the destination root of the extraction
OutputPath == <<47, 116, 47, 120>>

RootLoc == <<<<116>>, <<120>>>>

\* "a", "d/a", "d/../a", "d", "../m", "l/../../m"
ExtractPaths ==
    { <<97>>, <<100, 47, 97>>, <<100, 47, 46, 46, 47, 97>>, <<100>>,
      <<46, 46, 47, 109>>, <<108, 47, 46, 46, 47, 46, 46, 47, 109>> }

ExtractEntriesPool ==
    { [path |-> p, size |-> Len(d), mimeType |-> <<116>>, data |-> d] :
          p \in ExtractPaths, d \in {<<1>>, <<2, 3>>} }

\* The tree before the call: only /t, or a destination that already holds
\* a file a.
EmptyTree == [l \in {<<>>, <<<<116>>>>} |-> DirNode]

UsedTree == writeFile(mkdir(EmptyTree, RootLoc), Append(RootLoc, <<97>>), <<9>>)

ExtractArchive ==
    /\ pc = "build"
    /\ LET r == Extract(fs, archive, OutputPath)
       IN  /\ fs' = r.tree
           /\ result' = IF r.error = "" THEN Ok("extract", archive)
                        ELSE Err("extract", r.error, r.at)
    /\ pc' = "extracted"
    /\ UNCHANGED <<archive, file, tampers, job>>

InitExtract ==
    /\ pc = "build"
    /\ archive = [version |-> ARCHIVE_VERSION, entries |-> <<>>]
    /\ file = NoFile
    /\ result = NoResult
    /\ tampers = 0
    /\ fs \in {EmptyTree, UsedTree}
    /\ job = NoJob

NextExtract ==
    \/ AddEntry(ExtractEntriesPool)
    \/ ExtractArchive

SpecExtract == InitExtract /\ [][NextExtract]_vars

\* A location is the root or a descendant of it.
Within(loc, root) == Len(loc) >= Len(root) /\ SubSeq(loc, 1, Len(root)) = root

\* The entry path resolves, joined to the root, to a location outside it.
Escapes(entryPath) ==
    ~Within(NormalizeFrom(Split(OutputPath) \o Split(entryPath), <<>>), RootLoc)

\* C1 as stated: extractArchive never writes a file outside the destination
\* root; an archive with an entry whose resolved path leaves the root makes
\* it fail with 'Blocked path traversal attempt' and no file exists at the
\* outside location afterwards.
C1_TraversalBlocked ==
    pc = "extracted" =>
        /\ \A loc \in DOMAIN fs : IsFile(fs, loc) => Within(loc, RootLoc)
        /\ (\E k \in 1..Len(archive.entries) : Escapes(archive.entries[k].path))
              => (result.status = "error" /\ result.error = "Blocked path traversal attempt")

----------------------------------------------------------------------------
(* Strings of the collector, as code points *)

\* 'txt'
TXT == <<116, 120, 116>>

\* 'text/plain'
TEXTPLAIN == <<116, 101, 120, 116, 47, 112, 108, 97, 105, 110>>

\* 'application/octet-stream'
OCTETSTREAM == <<97, 112, 112, 108, 105, 99, 97, 116, 105, 111, 110, 47, 111, 99, 116, 101, 116, 45, 115, 116, 114, 101, 97, 109>>

\* '**/*'
STARSTAR_STAR == <<42, 42, 47, 42>>

\* '**/node_modules/**'
NODE_MODULES == <<42, 42, 47, 110, 111, 100, 101, 95, 109, 111, 100, 117, 108, 101, 115, 47, 42, 42>>

\* '**/.git/**'
DOTGIT == <<42, 42, 47, 46, 103, 105, 116, 47, 42, 42>>

\* '**/*.txt'
STARSTAR_TXT == <<42, 42, 47, 42, 46, 116, 120, 116>>

\* '**/e.txt'
STARSTAR_E_TXT == <<42, 42, 47, 101, 46, 116, 120, 116>>

\* '**/.env'
STARSTAR_DOTENV == <<42, 42, 47, 46, 101, 110, 118>>

\* 'i.txt'
I_TXT == <<105, 46, 116, 120, 116>>

\* 'e.txt'
E_TXT == <<101, 46, 116, 120, 116>>

\* 'd.txt'
D_TXT == <<100, 46, 116, 120, 116>>

\* 'node_modules'
NODE_MODULES_DIR == <<110, 111, 100, 101, 95, 109, 111, 100, 117, 108, 101, 115>>

\* '.git'
DOTGIT_DIR == <<46, 103, 105, 116>>

\* '.env'
DOTENV == <<46, 101, 110, 118>>


----------------------------------------------------------------------------
(* glob and mime-types, as createArchive calls them *)

\* One pattern segment against one path segment: '*' (42) stands for any run
\* of characters, every other character for itself.
RECURSIVE SegMatch(_, _)
SegMatch(pat, seg) ==
    IF pat = <<>> THEN seg = <<>>
    ELSE IF pat[1] = 42
         THEN SegMatch(Tail(pat), seg) \/ (seg # <<>> /\ SegMatch(pat, Tail(seg)))
    ELSE seg # <<>> /\ pat[1] = seg[1] /\ SegMatch(Tail(pat), Tail(seg))

\* Without the dot option a segment that begins with '.' (46) is matched
\* only by a pattern segment that begins with '.', and never by '**'.
Hidden(seg, dot) == ~dot /\ seg # <<>> /\ seg[1] = 46

NameMatch(pat, seg, dot) ==
    /\ SegMatch(pat, seg)
    /\ Hidden(seg, dot) => (pat # <<>> /\ pat[1] = 46)

\* A pattern, split into segments, against a relative path, split into
\* segments; '**' stands for any number of segments.
RECURSIVE GlobMatch(_, _, _)
GlobMatch(pats, segs, dot) ==
    IF pats = <<>> THEN segs = <<>>
    ELSE IF Head(pats) = <<42, 42>>
         THEN \/ GlobMatch(Tail(pats), segs, dot)
              \/ /\ segs # <<>>
                 /\ ~Hidden(Head(segs), dot)
                 /\ GlobMatch(pats, Tail(segs), dot)
    ELSE /\ segs # <<>>
         /\ NameMatch(Head(pats), Head(segs), dot)
         /\ GlobMatch(Tail(pats), Tail(segs), dot)

Matches(pattern, rel, dot) == GlobMatch(Split(pattern), rel, dot)

\* (mutation: directories are listed too, nodir not passed)
listed_WithDirs(tree, loc) == Exists(tree, loc)

\* nodir: true -- only regular files are listed
listed(tree, loc) == IsFile(tree, loc)

\* glob(include, { cwd, ignore: exclude, nodir: true, absolute: true }): the
\* files below cwd that match an include pattern and no ignore pattern
\* (ignore patterns always match with the dot option on).
glob(tree, cwd, include, exclude) ==
    { loc \in DOMAIN tree :
        /\ Len(loc) > Len(cwd) /\ SubSeq(loc, 1, Len(cwd)) = cwd
        /\ listed(tree, loc)
        /\ LET rel == SubSeq(loc, Len(cwd) + 1, Len(loc))
           IN  /\ \E k \in 1..Len(include) : Matches(include[k], rel, FALSE)
               /\ ~\E k \in 1..Len(exclude) : Matches(exclude[k], rel, TRUE) }

\* The characters after the last '.' of the file name, <<>> when it has none.
RECURSIVE ExtFrom(_, _)
ExtFrom(name, k) ==
    IF k = 0 THEN <<>>
    ELSE IF name[k] = 46 THEN SubSeq(name, k + 1, Len(name))
    ELSE ExtFrom(name, k - 1)

\* mime.lookup(file) || 'application/octet-stream'
mimeTypeOf(loc) ==
    IF ExtFrom(loc[Len(loc)], Len(loc[Len(loc)])) = TXT
    THEN TEXTPLAIN
    ELSE OCTETSTREAM

\* path.relative(sourcePath, file): the segments below sourcePath joined by '/'.
RECURSIVE JoinSegs(_)
JoinSegs(segs) ==
    IF segs = <<>> THEN <<>>
    ELSE IF Len(segs) = 1 THEN segs[1]
    ELSE segs[1] \o <<47>> \o JoinSegs(Tail(segs))

relative(from, loc) == JoinSegs(SubSeq(loc, Len(from) + 1, Len(loc)))

\* path.resolve of an absolute path
resolve(p) == NormalizeFrom(Split(p), <<>>)

----------------------------------------------------------------------------
(* The source trees and options the collector is run on *)

\* "/s" the source directory, "/q" nothing, "/f" a regular file
SourcePaths == {<<47, 115>>, <<47, 113>>, <<47, 102>>}

SourceLoc == <<<<115>>>>

\* The files a source tree may hold, by relative path: i.txt, e.txt,
\* s/i.txt, node_modules/m, .git/c, .env
Candidates ==
    << <<I_TXT>>, <<E_TXT>>, <<<<115>>, I_TXT>>, <<NODE_MODULES_DIR, <<109>>>>,
       <<DOTGIT_DIR, <<99>>>>, <<DOTENV>> >>

\* "/" with the regular file /f, the directory /s and its empty
\* subdirectory d.txt
BaseTree ==
    writeFile(mkdir(EmptyTree, SourceLoc \o <<D_TXT>>), <<<<102>>>>, <<1>>)

RECURSIVE TreeWith(_, _, _)
TreeWith(tree, chosen, k) ==
    IF k > Len(Candidates) THEN tree
    ELSE IF k \in chosen
         THEN TreeWith(writeFile(mkdir(tree, dirname(SourceLoc \o Candidates[k])),
                                 SourceLoc \o Candidates[k], <<k>>),
                       chosen, k + 1)
    ELSE TreeWith(tree, chosen, k + 1)

OptionsPool ==
    { [hasInclude |-> FALSE, include |-> <<>>, hasExclude |-> FALSE, exclude |-> <<>>],
      [hasInclude |-> TRUE, include |-> <<STARSTAR_TXT>>,
       hasExclude |-> TRUE, exclude |-> <<STARSTAR_E_TXT>>],
      [hasInclude |-> TRUE, include |-> <<STARSTAR_E_TXT, STARSTAR_DOTENV>>,
       hasExclude |-> FALSE, exclude |-> <<>>],
      [hasInclude |-> FALSE, include |-> <<>>,
       hasExclude |-> TRUE, exclude |-> <<STARSTAR_E_TXT>>] }

IdleJob ==
    [state |-> "idle", op |-> "", source |-> <<>>,
     options |-> [hasInclude |-> FALSE, include |-> <<>>, hasExclude |-> FALSE, exclude |-> <<>>],
     files |-> <<>>, i |-> 0, size |-> 0, entries |-> <<>>]

----------------------------------------------------------------------------
(* createArchive and archiveDirectory: the collector *)

\* (mutation: the isDirectory test left out)
sourceError_NoDirTest(tree, src) ==
    IF ~Exists(tree, resolve(src)) THEN "Source path does not exist" ELSE ""

\* The two tests createArchive makes before it collects anything.
sourceError(tree, src) ==
    IF ~Exists(tree, resolve(src)) THEN "Source path does not exist"
    ELSE IF ~IsDir(tree, resolve(src)) THEN "Source path is not a directory"
    ELSE ""

\* options.include || ['**/*'], options.exclude || ['**/node_modules/**', '**/.git/**']
includeOf(options) == IF options.hasInclude THEN options.include ELSE <<STARSTAR_STAR>>

excludeOf(options) ==
    IF options.hasExclude THEN options.exclude ELSE <<NODE_MODULES, DOTGIT>>

Perms(S) ==
    { f \in [1..Cardinality(S) -> S] : \A i, j \in 1..Cardinality(S) : f[i] = f[j] => i = j }

\* createArchive / archiveDirectory up to the end of "await glob(...)":
\* either one of the two source errors, or the list of files in the order
\* glob found them.
Start(op) ==
    /\ pc = "collect"
    /\ job.state = "idle"
    /\ \E src \in SourcePaths, options \in OptionsPool :
          LET e == sourceError(fs, src) IN
          IF e # ""
          THEN /\ job' = [job EXCEPT !.state = "failed", !.op = op, !.source = src,
                                     !.options = options]
               /\ result' = Err(op, e, 0)
          ELSE /\ \E files \in Perms(glob(fs, resolve(src), includeOf(options),
                                          excludeOf(options))) :
                      job' = [job EXCEPT !.state = "loop", !.op = op, !.source = src,
                                         !.options = options, !.files = files, !.i = 1]
               /\ UNCHANGED result
    /\ UNCHANGED <<pc, archive, file, tampers, fs>>

CreateArchive == Start("createArchive")

ArchiveDirectory == Start("archiveDirectory")

\* const fileStats = await stat(file)
StatFile ==
    /\ job.state = "loop"
    /\ job.i <= Len(job.files)
    /\ job' = [job EXCEPT !.state = "read", !.size = Len(fs[job.files[job.i]].data)]
    /\ UNCHANGED <<pc, archive, file, result, tampers, fs>>

\* const data = await readFile(file); entries.push({ path, size, mimeType, data })
ReadFile ==
    /\ job.state = "read"
    /\ LET loc == job.files[job.i]
       IN  job' = [job EXCEPT !.state = "loop", !.i = @ + 1,
                     !.entries = Append(@, [path |-> relative(resolve(job.source), loc),
                                            size |-> job.size,
                                            mimeType |-> mimeTypeOf(loc),
                                            data |-> fs[loc].data])]
    /\ UNCHANGED <<pc, archive, file, result, tampers, fs>>

\* return { version, entries }; archiveDirectory then calls writeArchive.
Finish ==
    /\ job.state = "loop"
    /\ job.i > Len(job.files)
    /\ archive' = [version |-> ARCHIVE_VERSION, entries |-> job.entries]
    /\ result' = Ok(job.op, archive')
    /\ file' = IF job.op = "archiveDirectory"
               THEN [exists |-> TRUE, bytes |-> Serialize(archive')]
               ELSE file
    /\ job' = [job EXCEPT !.state = "done"]
    /\ UNCHANGED <<pc, tampers, fs>>

\* Another process rewrites a file of the tree while the collector runs.
Modify ==
    /\ job.state \in {"loop", "read"}
    /\ tampers < MaxTampers
    /\ \E loc \in DOMAIN fs :
          /\ IsFile(fs, loc)
          /\ fs[loc].data # <<8, 8>>
          /\ fs' = writeFile(fs, loc, <<8, 8>>)
    /\ tampers' = tampers + 1
    /\ UNCHANGED <<pc, archive, file, result, job>>

InitCollect ==
    /\ pc = "collect"
    /\ archive = NoArchive
    /\ file = NoFile
    /\ result = NoResult
    /\ tampers = 0
    /\ fs \in {TreeWith(BaseTree, chosen, 1) : chosen \in SUBSET (1..Len(Candidates))}
    /\ job = IdleJob

NextCollect ==
    \/ CreateArchive
    \/ ArchiveDirectory
    \/ StatFile
    \/ ReadFile
    \/ Finish
    \/ Modify

SpecCollect == InitCollect /\ [][NextCollect]_vars

----------------------------------------------------------------------------
(* Properties of the collector *)

\* The regular files below the source directory, as relative segment lists.
SourceFiles ==
    { SubSeq(loc, 2, Len(loc)) :
        loc \in {l \in DOMAIN fs : Len(l) > 1 /\ l[1] = <<115>> /\ fs[l].kind = "file"} }

EntryPaths(a) == {a.entries[k].path : k \in 1..Len(a.entries)}

\* The file lies below a directory named node_modules or .git.
InExcludedDir(rel) ==
    \E k \in 1..(Len(rel) - 1) : rel[k] = NODE_MODULES_DIR \/ rel[k] = DOTGIT_DIR

HasDotSegment(rel) == \E k \in 1..Len(rel) : rel[k][1] = 46

Excluded(options, rel) ==
    IF options.hasExclude
    THEN \E k \in 1..Len(options.exclude) : Matches(options.exclude[k], rel, TRUE)
    ELSE InExcludedDir(rel)

\* C9: createArchive fails with a not-found error when the source path does
\* not exist ("/q") and with 'Source path is not a directory' when it is a
\* regular file ("/f"); no entry is collected and archiveDirectory creates
\* nothing at the output path.
C9_SourceErrors ==
    /\ (job.state # "idle" /\ job.source \in {<<47, 113>>, <<47, 102>>})
          => /\ job.state = "failed"
             /\ result.status = "error"
             /\ result.op = job.op
             /\ job.source = <<47, 113>> => result.error = "Source path does not exist"
             /\ job.source = <<47, 102>> => result.error = "Source path is not a directory"
             /\ job.entries = <<>>
             /\ result.archive = NoArchive
             /\ archive = NoArchive
             /\ ~file.exists
    /\ (job.state = "failed") => job.source \in {<<47, 113>>, <<47, 102>>}

C9_Witness ==
    /\ job.state = "failed"
    /\ job.op = "archiveDirectory"
    /\ job.source = <<47, 102>>
    /\ IsFile(fs, <<<<102>>>>)
    /\ result.error = "Source path is not a directory"
    /\ ~file.exists

\* C10 as stated: createArchive returns one entry for exactly the regular
\* files below the source root that match an include pattern and no exclude
\* pattern; directories are never entries; with no options every file is
\* included except those of node_modules and .git directories.
C10_DefaultIncludesEverything ==
    job.state = "done" =>
        /\ Len(archive.entries) = Cardinality(EntryPaths(archive))
        /\ EntryPaths(archive) =
              { JoinSegs(rel) : rel \in
                  { r \in SourceFiles :
                      /\ job.options.hasInclude =>
                            \E k \in 1..Len(job.options.include) :
                                Matches(job.options.include[k], r, FALSE)
                      /\ ~Excluded(job.options, r) } }

\* C10 amended: as stated, except that with no include option the include
\* pattern is '**/*', which matches the files none of whose path segments
\* begins with a dot (an include pattern matches a dot-led segment only where
\* it spells the dot).
C10_Filtering ==
    job.state = "done" =>
        /\ Len(archive.entries) = Cardinality(EntryPaths(archive))
        /\ EntryPaths(archive) =
              { JoinSegs(rel) : rel \in
                  { r \in SourceFiles :
                      /\ IF job.options.hasInclude
                         THEN \E k \in 1..Len(job.options.include) :
                                 Matches(job.options.include[k], r, FALSE)
                         ELSE ~HasDotSegment(r)
                      /\ ~Excluded(job.options, r) } }

C10_Witness ==
    /\ job.state = "done"
    /\ ~job.options.hasInclude /\ ~job.options.hasExclude
    /\ Cardinality(SourceFiles) = 6
    /\ IsDir(fs, <<<<115>>, D_TXT>>)
    /\ EntryPaths(archive) = {I_TXT, E_TXT, <<115, 47>> \o I_TXT}

----------------------------------------------------------------------------
(* compression.ts: compressData and decompressData *)

\* CompressionAlgorithm: the members' string values 'gzip', 'brotli', 'deflate'
GZIP == <<103, 122, 105, 112>>

BROTLI == <<98, 114, 111, 116, 108, 105>>

DEFLATE == <<100, 101, 102, 108, 97, 116, 101>>

CompressionAlgorithm == {GZIP, BROTLI, DEFLATE}

\* An absent algorithm argument; "if (algorithm)" takes the empty string
\* for absent as well.
NoAlgorithm == <<>>

\* options.level ?? 6
DefaultLevel == 6

\* the highest level of gzip and of brotli
MaxGzipLevel == 9

MaxBrotliLevel == 11

\* A promise of a Buffer: resolved with data, or rejected with an error whose
\* message is msg followed by detail.
Resolved(data) == [status |-> "ok", error |-> "", detail |-> <<>>, data |-> data]

Rejected(msg, d) == [status |-> "error", error |-> msg, detail |-> d, data |-> <<>>]

NoOutcome == [status |-> "none", error |-> "", detail |-> <<>>, data |-> <<>>]

\* zlib.gzip: a member header (magic 1F 8B, method 8, a flag byte that
\* depends on the level), the body, and a trailer of check byte and length.
\* The body is held as stored bytes.
gzip(data, level) ==
    <<31, 139, 8, IF level = 9 THEN 2 ELSE IF level = 1 THEN 4 ELSE 0>>
        \o data \o <<SumSeq(data) % 256, Len(data) % 256>>

\* zlib.gunzip: rejects what is not a whole gzip member.
gunzip(data) ==
    IF Len(data) < 3 \/ SubSeq(data, 1, 3) # <<31, 139, 8>>
    THEN Rejected("incorrect header check", <<>>)
    ELSE IF Len(data) < 6 THEN Rejected("unexpected end of file", <<>>)
    ELSE LET body == SubSeq(data, 5, Len(data) - 2)
         IN  IF /\ data[Len(data) - 1] = SumSeq(body) % 256
                /\ data[Len(data)] = Len(body) % 256
             THEN Resolved(body)
             ELSE Rejected("incorrect data check", <<>>)

\* zlib.brotliCompress: a stream with no magic number: a length byte, the
\* body as stored bytes and an end marker.
brotliCompress(data, quality) == <<Len(data) % 256>> \o data \o <<3>>

\* zlib.brotliDecompress
brotliDecompress(data) ==
    IF /\ Len(data) >= 2
       /\ data[1] = (Len(data) - 2) % 256
       /\ data[Len(data)] = 3
    THEN Resolved(SubSeq(data, 2, Len(data) - 1))
    ELSE Rejected("Decompression failed", <<>>)

levelOf(options) == IF options.hasLevel THEN options.level ELSE DefaultLevel

compressData(data, options) ==
    LET level == levelOf(options) IN
    IF level < 0
       \/ level > (IF options.algorithm = BROTLI THEN MaxBrotliLevel ELSE MaxGzipLevel)
    THEN Rejected("Invalid compression level", <<level>>)
    ELSE IF options.algorithm = GZIP THEN Resolved(gzip(data, level))
    ELSE IF options.algorithm = BROTLI THEN Resolved(brotliCompress(data, level))
    ELSE Rejected("Unsupported compression algorithm: ", options.algorithm)

\* The header sniffing of decompressData and its rewrapping of errors.
detect(data) ==
    LET r == IF Len(data) >= 2 /\ data[1] = 31 /\ data[2] = 139
             THEN gunzip(data)
             ELSE IF brotliDecompress(data).status = "ok"
                  THEN brotliDecompress(data)
                  ELSE Rejected("Unable to detect compression algorithm. Please specify the algorithm explicitly.", <<>>)
    IN  IF r.status = "ok" THEN r
        ELSE Rejected("Decompression failed: " \o r.error, <<>>)

decompressData(data, algorithm) ==
    IF algorithm # NoAlgorithm
    THEN IF algorithm = GZIP THEN gunzip(data)
         ELSE IF algorithm = BROTLI THEN brotliDecompress(data)
         ELSE Rejected("Unsupported compression algorithm: ", algorithm)
    ELSE detect(data)

----------------------------------------------------------------------------
(* The calls made on compressData and decompressData *)

\* 'invalid', a name outside the enumeration
INVALID == <<105, 110, 118, 97, 108, 105, 100>>

CompressDatas == {<<>>, <<7>>, <<7, 200>>, <<31, 139>>}

CompressLevels == {-1, 0, 1, 9, 10, 11, 12}

CompressOptions ==
    { [algorithm |-> a, hasLevel |-> FALSE, level |-> 0] :
          a \in CompressionAlgorithm \cup {INVALID} }
    \cup { [algorithm |-> a, hasLevel |-> TRUE, level |-> l] :
             a \in CompressionAlgorithm \cup {INVALID}, l \in CompressLevels }

IdleCompress ==
    [state |-> "idle", data |-> <<>>,
     options |-> [algorithm |-> GZIP, hasLevel |-> FALSE, level |-> 0],
     algorithm |-> NoAlgorithm]

\* compressed = await compressData(data, options)
CompressData ==
    /\ pc = "compress"
    /\ job.state = "idle"
    /\ \E data \in CompressDatas, options \in CompressOptions :
          /\ job' = [job EXCEPT !.state = "compressed", !.data = data,
                                !.options = options]
          /\ result' = compressData(data, options)
          /\ file' = IF result'.status = "ok"
                     THEN [exists |-> TRUE, bytes |-> result'.data]
                     ELSE file
    /\ UNCHANGED <<pc, archive, tampers, fs>>

\* await decompressData(compressed, algorithm), the algorithm passed being
\* the one compressed with, or none
DecompressData ==
    /\ job.state = "compressed"
    /\ file.exists
    /\ \E algorithm \in {job.options.algorithm, NoAlgorithm} :
          /\ job' = [job EXCEPT !.state = "decompressed", !.algorithm = algorithm]
          /\ result' = decompressData(file.bytes, algorithm)
    /\ UNCHANGED <<pc, archive, file, tampers, fs>>

\* await decompressData(data, algorithm) on bytes no compressData produced
DecompressForeign ==
    /\ pc = "compress"
    /\ job.state = "idle"
    /\ \E data \in CompressDatas, algorithm \in CompressionAlgorithm \cup {INVALID, NoAlgorithm} :
          /\ job' = [job EXCEPT !.state = "foreign", !.data = data,
                                !.algorithm = algorithm]
          /\ result' = decompressData(data, algorithm)
    /\ UNCHANGED <<pc, archive, file, tampers, fs>>

----------------------------------------------------------------------------
(* utils.ts: getCompressionAlgorithm *)

\* String.prototype.toLowerCase on the letters A..Z
toLowerCase(str) ==
    [i \in 1..Len(str) |-> IF str[i] >= 65 /\ str[i] <= 90 THEN str[i] + 32 ELSE str[i]]

\* switch (algorithm.toLowerCase()) { case 'gzip': ... case 'brotli': ...
\* default: throw }; the returned member is in the data field.
getCompressionAlgorithm(algorithm) ==
    IF toLowerCase(algorithm) = GZIP THEN Resolved(GZIP)
    ELSE IF toLowerCase(algorithm) = BROTLI THEN Resolved(BROTLI)
    ELSE Rejected("Unsupported compression algorithm: ", algorithm)

\* Every way of writing a word in upper and lower case letters
CaseVariants(word) ==
    { [i \in 1..Len(word) |-> IF i \in up THEN word[i] - 32 ELSE word[i]] :
          up \in SUBSET (1..Len(word)) }

\* 'zip', ' gzip', 'brotli ', ' lzfse ', 'gz'
OtherNames ==
    { INVALID, <<>>, <<122, 105, 112>>, <<32>> \o GZIP, BROTLI \o <<32>>,
      <<32, 108, 122, 102, 115, 101, 32>>, <<103, 122>> }

AlgorithmNames ==
    CaseVariants(GZIP) \cup CaseVariants(BROTLI) \cup CaseVariants(DEFLATE) \cup OtherNames

\* getCompressionAlgorithm(name)
GetCompressionAlgorithm ==
    /\ pc = "compress"
    /\ job.state = "idle"
    /\ \E name \in AlgorithmNames :
          /\ job' = [job EXCEPT !.state = "named", !.data = name]
          /\ result' = getCompressionAlgorithm(name)
    /\ UNCHANGED <<pc, archive, file, tampers, fs>>

InitCompress ==
    /\ pc = "compress"
    /\ archive = NoArchive
    /\ file = NoFile
    /\ result = NoOutcome
    /\ tampers = 0
    /\ fs = NoFs
    /\ job = IdleCompress

NextCompress ==
    \/ CompressData
    \/ DecompressData
    \/ DecompressForeign
    \/ GetCompressionAlgorithm

SpecCompress == InitCompress /\ [][NextCompress]_vars

----------------------------------------------------------------------------
(* Properties of compressData and decompressData *)

AcceptedLevel(options) ==
    /\ levelOf(options) >= 0
    /\ levelOf(options) <=
          (IF options.algorithm = BROTLI THEN MaxBrotliLevel ELSE MaxGzipLevel)

\* C11 as stated: for every algorithm of {GZIP, BROTLI, DEFLATE}, every
\* accepted level and every byte sequence d, compressData resolves and
\* decompressData of its result with the same algorithm returns exactly d;
\* compressData answers 'Unsupported compression algorithm: <name>' only for
\* algorithms outside that set.
C11_RoundTripEveryAlgorithm ==
    /\ (job.state = "compressed" /\ job.options.algorithm \in CompressionAlgorithm
          /\ AcceptedLevel(job.options))
          => result.status = "ok"
    /\ (job.state = "compressed" /\ result.status = "error"
          /\ result.error = "Unsupported compression algorithm: ")
          => job.options.algorithm \notin CompressionAlgorithm
    /\ (job.state = "decompressed" /\ job.algorithm = job.options.algorithm)
          => result = Resolved(job.data)

\* C14 as stated: getCompressionAlgorithm maps 'gzip', 'brotli' and
\* 'deflate', in any letter case, to GZIP, BROTLI and DEFLATE, and throws
\* 'Unsupported compression algorithm: <input>' for every other string, the
\* empty string and names with leading or trailing whitespace included.
C14_NamesInAnyCase ==
    job.state = "named" =>
        IF toLowerCase(job.data) \in CompressionAlgorithm
        THEN result = Resolved(toLowerCase(job.data))
        ELSE result = Rejected("Unsupported compression algorithm: ", job.data)

----------------------------------------------------------------------------
(* compressFile, signFile and the file calls they make *)

\* '.archive', '.gz', '.br', '.sig', and 'undefined' as a template literal
\* prints a missing map entry
DOT_ARCHIVE == <<46, 97, 114, 99, 104, 105, 118, 101>>

DOT_GZ == <<46, 103, 122>>

DOT_BR == <<46, 98, 114>>

DOT_SIG == <<46, 115, 105, 103>>

UNDEFINED == <<117, 110, 100, 101, 102, 105, 110, 101, 100>>

\* (mutation: every algorithm gets '.gz')
algorithmToExtension_AlwaysGz(algorithm) == DOT_GZ

\* algorithmToExtension[algorithm], as `${...}` prints it
algorithmToExtension(algorithm) ==
    IF algorithm = GZIP THEN DOT_GZ
    ELSE IF algorithm = BROTLI THEN DOT_BR
    ELSE UNDEFINED

\* The effect of a call on the file system: the tree after it and the error
\* it threw ("" for none).
Effect(tree, error, d) == [tree |-> tree, error |-> error, detail |-> d]

\* fs.unlinkSync(loc) on an existing file
unlink(tree, loc) == [l \in DOMAIN tree \ {loc} |-> tree[l]]

\* mkdir(dirname(out), { recursive: true }) and writeFile(out, data)
writeTo(tree, out, data) ==
    IF mkdirFails(tree, dirname(out)) THEN Effect(tree, "EEXIST", <<>>)
    ELSE IF writeFileFails(mkdir(tree, dirname(out)), out)
         THEN Effect(mkdir(tree, dirname(out)), "EISDIR", <<>>)
    ELSE Effect(writeFile(mkdir(tree, dirname(out)), out, data), "", <<>>)

\* compressFile(inputPath, outputPath, options): readFile, compressData,
\* mkdir, writeFile
compressFile(tree, inputPath, outputPath, options) ==
    IF ~IsFile(tree, resolve(inputPath))
    THEN Effect(tree, IF Exists(tree, resolve(inputPath)) THEN "EISDIR" ELSE "ENOENT", <<>>)
    ELSE LET compressed == compressData(tree[resolve(inputPath)].data, options) IN
         IF compressed.status # "ok"
         THEN Effect(tree, compressed.error, compressed.detail)
         ELSE writeTo(tree, resolve(outputPath), compressed.data)

\* The entries createArchive makes of the files glob returned, in that order.
RECURSIVE collect(_, _, _, _)
collect(tree, root, files, k) ==
    IF k > Len(files) THEN <<>>
    ELSE <<[path |-> relative(root, files[k]),
            size |-> Len(tree[files[k]].data),
            mimeType |-> mimeTypeOf(files[k]),
            data |-> tree[files[k]].data]>> \o collect(tree, root, files, k + 1)

\* archiveDirectory(sourcePath, outputPath, options), glob having returned
\* files: createArchive, then writeArchive (mkdir, the buffer, writeFile).
archiveDirectory(tree, sourcePath, outputPath, files) ==
    IF sourceError(tree, sourcePath) # ""
    THEN Effect(tree, sourceError(tree, sourcePath), <<>>)
    ELSE writeTo(tree, resolve(outputPath),
                 Serialize([version |-> ARCHIVE_VERSION,
                            entries |-> collect(tree, resolve(sourcePath), files, 1)]))

\* The orders in which glob may return the files of a source directory
\* (none when the source is refused).
globbed(tree, sourcePath, options) ==
    IF sourceError(tree, sourcePath) # "" THEN {<<>>}
    ELSE Perms(glob(tree, resolve(sourcePath), includeOf(options), excludeOf(options)))

\* SignOptions: a private key, the path of a private key file, or neither
NoKey == [hasKey |-> FALSE, privateKey |-> <<>>, hasPath |-> FALSE, privateKeyPath |-> <<>>]

\* A detached signature: a function of the key and of the bytes signed.
sign(bytes, key) == key \o <<SumSeq(bytes) % 256, Len(bytes) % 256>>

\* signFile(sourcePath, outputPath, options): the key, the bytes of the
\* source file, the signature written to outputPath.
signFile(tree, sourcePath, outputPath, options) ==
    IF ~options.hasKey /\ ~options.hasPath
    THEN Effect(tree, "Private key or path to private key file is required", <<>>)
    ELSE IF ~options.hasKey /\ ~IsFile(tree, resolve(options.privateKeyPath))
    THEN Effect(tree, "ENOENT", options.privateKeyPath)
    ELSE IF ~IsFile(tree, resolve(sourcePath)) THEN Effect(tree, "ENOENT", sourcePath)
    ELSE writeTo(tree, resolve(outputPath),
                 sign(tree[resolve(sourcePath)].data,
                      IF options.hasKey THEN options.privateKey
                      ELSE tree[resolve(options.privateKeyPath)].data))

----------------------------------------------------------------------------
(* utils.ts: createPackage, and commands.ts: handlePackage *)

\* What the console was given: error(), warning(), info(), spinner texts
Message(kind, text, msg, d) == [kind |-> kind, text |-> text, msg |-> msg, detail |-> d]

\* "/o/p", "/f/p" (below the regular file /f), "/s/p" (inside the source)
PackageOutputs == {<<47, 111, 47, 112>>, <<47, 102, 47, 112>>, <<47, 115, 47, 112>>}

\* "/k", a private key file; "/n", no file
KeyPath == <<47, 107>>

NoKeyPath == <<47, 110>>

PackageTrees ==
    { writeFile(TreeWith(BaseTree, chosen, 1), resolve(KeyPath), <<5>>) :
          chosen \in {{}, {1}, {1, 3}, {1, 2, 6}} }

\* signOptions: null, { privateKey }, { privateKeyPath } or {}
NoSign == [given |-> FALSE, options |-> NoKey]

SignPool ==
    { NoSign,
      [given |-> TRUE, options |-> [NoKey EXCEPT !.hasKey = TRUE, !.privateKey = <<5>>]],
      [given |-> TRUE, options |-> [NoKey EXCEPT !.hasPath = TRUE, !.privateKeyPath = KeyPath]],
      [given |-> TRUE, options |-> NoKey] }

\* The options of the package command: --algorithm, --privkey, --include,
\* --exclude (the patterns as one comma-separated string each)
NoCliOptions ==
    [hasAlgorithm |-> FALSE, algorithm |-> <<>>, hasPrivkey |-> FALSE, privkey |-> <<>>,
     hasInclude |-> FALSE, include |-> <<>>, hasExclude |-> FALSE, exclude |-> <<>>]

PackageCliOptions ==
    { [NoCliOptions EXCEPT !.hasAlgorithm = a[1], !.algorithm = a[2],
                           !.hasPrivkey = k[1], !.privkey = k[2],
                           !.hasInclude = p, !.include = IF p THEN STARSTAR_TXT ELSE <<>>,
                           !.hasExclude = p, !.exclude = IF p THEN STARSTAR_E_TXT ELSE <<>>] :
          a \in {<<FALSE, <<>>>>, <<TRUE, GZIP>>, <<TRUE, toLowerCase(BROTLI)>>,
                 <<TRUE, DEFLATE>>},
          k \in {<<FALSE, <<>>>>, <<TRUE, KeyPath>>, <<TRUE, NoKeyPath>>},
          p \in BOOLEAN }

IdlePackage ==
    [state |-> "idle", caller |-> "", source |-> <<>>, output |-> <<>>,
     given |-> NoAlgorithm, algorithm |-> GZIP, sign |-> NoSign, options |-> NoCliOptions,
     archivePath |-> <<>>, compressedPath |-> <<>>, signaturePath |-> <<>>,
     stages |-> <<>>, log |-> <<>>, messages |-> <<>>, outcome |-> ""]

\* (mutation: the sign stage follows compression whether or not
\* signOptions were given)
nextStage_AlwaysSign(stage, given) ==
    IF stage = "mkdir" THEN "archive"
    ELSE IF stage = "archive" THEN "compress"
    ELSE IF stage = "compress" THEN "sign"
    ELSE "return"

\* The statement createPackage goes on with after each of its awaits.
nextStage(stage, given) ==
    IF stage = "mkdir" THEN "archive"
    ELSE IF stage = "archive" THEN "compress"
    ELSE IF stage = "compress" THEN (IF given THEN "sign" ELSE "return")
    ELSE "return"

\* createPackage(sourcePath, outputPath, compressionAlgorithm, signOptions)
\* called directly; an algorithm not given is GZIP.
CreatePackage ==
    /\ pc = "package"
    /\ job.state = "idle"
    /\ \E source \in SourcePaths, output \in PackageOutputs,
          given \in CompressionAlgorithm \cup {NoAlgorithm}, s \in SignPool :
          job' = [job EXCEPT !.state = "mkdir", !.caller = "api", !.source = source,
                             !.output = output, !.given = given,
                             !.algorithm = IF given = NoAlgorithm THEN GZIP ELSE given,
                             !.sign = s]
    /\ UNCHANGED <<pc, archive, file, result, tampers, fs>>

\* A rejection of createPackage: the caller of the function gets it; the
\* handler reports it and resolves.
Rejects(stage, effect) ==
    /\ job' = [job EXCEPT !.state = "done", !.outcome = "failed",
                 !.stages = IF stage = "mkdir" THEN @ ELSE Append(@, stage),
                 !.messages = IF job.caller = "cli"
                              THEN Append(@, Message("error", "Failed to create package: ",
                                                      effect.error, effect.detail))
                              ELSE @]
    /\ result' = IF job.caller = "cli" THEN Resolved(<<>>)
                 ELSE Rejected(effect.error, effect.detail)

\* handlePackage(sourcePath, outputPath, options) up to the call of
\* createPackage: validateParams, validatePath, getCompressionAlgorithm.
HandlePackage ==
    /\ pc = "package"
    /\ job.state = "idle"
    /\ \E source \in SourcePaths \cup {<<>>}, output \in PackageOutputs,
          options \in PackageCliOptions :
          LET j == [job EXCEPT !.caller = "cli", !.source = source, !.output = output,
                               !.options = options]
              named == IF options.hasAlgorithm
                       THEN getCompressionAlgorithm(options.algorithm)
                       ELSE Resolved(GZIP)
              stop(kind, text, msg, d) ==
                  /\ job' = [j EXCEPT !.state = "done", !.outcome = "failed",
                                      !.messages = Append(@, Message(kind, text, msg, d))]
                  /\ result' = Resolved(<<>>)
          IN  IF source = <<>> \/ output = <<>>
              THEN stop("error", "Validation error: ", "Path must not be empty", <<>>)
              ELSE IF ~Exists(fs, resolve(source))
              THEN stop("error", "Path does not exist: ", "", source)
              ELSE IF ~IsDir(fs, resolve(source))
              THEN stop("error", "Path is not a directory: ", "", source)
              ELSE IF named.status # "ok"
              THEN stop("error", "Failed to create package: ", named.error, named.detail)
              ELSE /\ job' = [j EXCEPT !.state = "mkdir", !.algorithm = named.data,
                                !.sign = IF options.hasPrivkey
                                         THEN [given |-> TRUE,
                                               options |-> [NoKey EXCEPT !.hasPath = TRUE,
                                                              !.privateKeyPath = options.privkey]]
                                         ELSE NoSign]
                   /\ UNCHANGED result
    /\ UNCHANGED <<pc, archive, file, tampers, fs>>

\* await mkdir(outputDir, { recursive: true }), then the three paths
PackageMkdir ==
    /\ job.state = "mkdir"
    /\ IF mkdirFails(fs, dirname(resolve(job.output)))
       THEN Rejects("mkdir", Effect(fs, "EEXIST", <<>>)) /\ UNCHANGED fs
       ELSE /\ fs' = mkdir(fs, dirname(resolve(job.output)))
            /\ job' = [job EXCEPT
                 !.state = nextStage("mkdir", job.sign.given),
                 !.archivePath = job.output \o DOT_ARCHIVE,
                 !.compressedPath = job.output \o algorithmToExtension(job.algorithm),
                 !.signaturePath = IF job.sign.given
                                   THEN job.output \o algorithmToExtension(job.algorithm)
                                            \o DOT_SIG
                                   ELSE <<>>]
            /\ UNCHANGED result
    /\ UNCHANGED <<pc, archive, file, tampers>>

\* Step 1: await archiveDirectory(sourcePath, archivePath) -- no options
PackageArchive ==
    /\ job.state = "archive"
    /\ \E files \in globbed(fs, job.source, IdleJob.options) :
          LET e == archiveDirectory(fs, job.source, job.archivePath, files) IN
          /\ fs' = e.tree
          /\ IF e.error # "" THEN Rejects("archive", e)
             ELSE /\ job' = [job EXCEPT !.state = nextStage("archive", job.sign.given),
                               !.stages = Append(@, "archive"),
                                !.log = Append(@, [stage |-> "archive", input |-> <<>>,
                                       output |-> e.tree[resolve(job.archivePath)].data])]
                  /\ UNCHANGED result
    /\ UNCHANGED <<pc, archive, file, tampers>>

\* Step 2: await compressFile(archivePath, compressedPath, { algorithm })
PackageCompress ==
    /\ job.state = "compress"
    /\ LET e == compressFile(fs, job.archivePath, job.compressedPath,
                             [algorithm |-> job.algorithm, hasLevel |-> FALSE, level |-> 0])
       IN  /\ fs' = e.tree
           /\ IF e.error # "" THEN Rejects("compress", e)
              ELSE /\ job' = [job EXCEPT !.state = nextStage("compress", job.sign.given),
                                !.stages = Append(@, "compress"),
                                !.log = Append(@, [stage |-> "compress",
                                        input |-> fs[resolve(job.archivePath)].data,
                                        output |-> e.tree[resolve(job.compressedPath)].data])]
                   /\ UNCHANGED result
    /\ UNCHANGED <<pc, archive, file, tampers>>

\* Step 3: await signFile(compressedPath, signaturePath, signOptions)
PackageSign ==
    /\ job.state = "sign"
    /\ LET e == signFile(fs, job.compressedPath, job.signaturePath, job.sign.options)
       IN  /\ fs' = e.tree
           /\ IF e.error # "" THEN Rejects("sign", e)
              ELSE /\ job' = [job EXCEPT !.state = nextStage("sign", job.sign.given),
                                !.stages = Append(@, "sign"),
                                !.log = Append(@, [stage |-> "sign",
                                        input |-> fs[resolve(job.compressedPath)].data,
                                        output |-> e.tree[resolve(job.signaturePath)].data])]
                   /\ UNCHANGED result
    /\ UNCHANGED <<pc, archive, file, tampers>>

\* return { archivePath, compressedPath, signaturePath }; handlePackage goes
\* on to report the files and to unlink the archive.
PackageReturn ==
    /\ job.state = "return"
    /\ IF job.caller = "api"
       THEN /\ job' = [job EXCEPT !.state = "done", !.outcome = "ok"]
            /\ result' = Resolved(<<>>)
            /\ UNCHANGED fs
       ELSE /\ job' = [job EXCEPT !.state = "done", !.outcome = "ok",
                 !.messages = @ \o
                    << Message("succeed", "Package created successfully", "", <<>>),
                       Message("info", "Generated files:", "", <<>>),
                       Message("info", "  Archive: ", "", job.archivePath),
                       Message("info", "  Package: ", "", job.compressedPath) >>
                    \o (IF job.signaturePath # <<>>
                        THEN <<Message("info", "  Signature: ", "", job.signaturePath)>>
                        ELSE <<>>)
                    \o << Message("info", "Compression ratio: ", "", <<>>),
                          Message("info", "Temporary archive file removed: ", "",
                                  job.archivePath) >>]
            /\ result' = Resolved(<<>>)
            /\ fs' = unlink(fs, resolve(job.archivePath))
    /\ UNCHANGED <<pc, archive, file, tampers>>

InitPackage ==
    /\ pc = "package"
    /\ archive = NoArchive
    /\ file = NoFile
    /\ result = NoOutcome
    /\ tampers = 0
    /\ fs \in PackageTrees
    /\ job = IdlePackage

NextPackage ==
    \/ CreatePackage
    \/ HandlePackage
    \/ PackageMkdir
    \/ PackageArchive
    \/ PackageCompress
    \/ PackageSign
    \/ PackageReturn

SpecPackage == InitPackage /\ [][NextPackage]_vars

----------------------------------------------------------------------------
(* Properties of createPackage and handlePackage *)

\* The private key signFile signs with
KeyOf(options) ==
    IF options.hasKey THEN options.privateKey ELSE fs[resolve(options.privateKeyPath)].data

RECURSIVE SplitBy(_, _, _, _)
SplitBy(str, sep, k, cur) ==
    IF k > Len(str) THEN <<cur>>
    ELSE IF str[k] = sep THEN <<cur>> \o SplitBy(str, sep, k + 1, <<>>)
    ELSE SplitBy(str, sep, k + 1, Append(cur, str[k]))

\* The archive inside the compressed file of a package
Packaged ==
    Parse(decompressData(fs[resolve(job.compressedPath)].data, job.algorithm).data).archive

\* C13 as stated: when include/exclude patterns are supplied to the package
\* command, the packaged archive contains only files that match an include
\* pattern and no exclude pattern.
C13_PackagePatterns ==
    (job.state = "done" /\ job.outcome = "ok" /\ job.caller = "cli"
        /\ job.options.hasInclude /\ job.options.hasExclude) =>
        \A k \in 1..Len(Packaged.entries) :
            LET rel == Split(Packaged.entries[k].path)
                include == SplitBy(job.options.include, 44, 1, <<>>)
                exclude == SplitBy(job.options.exclude, 44, 1, <<>>)
            IN  /\ \E i \in 1..Len(include) : Matches(include[i], rel, FALSE)
                /\ ~\E i \in 1..Len(exclude) : Matches(exclude[i], rel, TRUE)

----------------------------------------------------------------------------
(* Further properties of the extractor *)

\* extractArchive wrote entry k: the call went through, or failed at a
\* later entry.
Written(k) == result.status = "ok" \/ (result.detail # 0 /\ k < result.detail)

\* C15 as stated: if entries[k] is the first entry whose resolved path
\* leaves the destination root, extractArchive returns an error and no entry
\* with index >= k has been written.
C15_AbortsAtFirstEscape ==
    pc = "extracted" =>
        \A k \in 1..Len(archive.entries) :
            (/\ Escapes(archive.entries[k].path)
             /\ \A j \in 1..(k - 1) : ~Escapes(archive.entries[j].path))
            => /\ result.status = "error"
               /\ \A i \in k..Len(archive.entries) : ~Written(i)

\* The index of the last entry for which same(k) holds
LastOf(same(_)) ==
    CHOOSE j \in 1..Len(archive.entries) :
        same(j) /\ \A i \in (j + 1)..Len(archive.entries) : ~same(i)

\* C18 as stated: after a successful extractArchive, for every path p of the
\* archive the file at root/p holds the content of the last entry in list
\* order whose path is p.
C18_LastEntryOfPathWins ==
    (pc = "extracted" /\ result.status = "ok") =>
        \A k \in 1..Len(archive.entries) :
            LET SamePath(j) == archive.entries[j].path = archive.entries[k].path
                loc == join(OutputPath, archive.entries[k].path)
            IN  IsFile(fs, loc) /\ fs[loc].data = archive.entries[LastOf(SamePath)].data

\* C18 amended: after a successful extractArchive, for every path p of the
\* archive the file that root/p names holds the content of the last entry in
\* list order whose path names that same file, whatever was there before.
C18_LastWriteWins ==
    (pc = "extracted" /\ result.status = "ok") =>
        \A k \in 1..Len(archive.entries) :
            LET loc == join(OutputPath, archive.entries[k].path)
                SameFile(j) == join(OutputPath, archive.entries[j].path) = loc
            IN  IsFile(fs, loc) /\ fs[loc].data = archive.entries[LastOf(SameFile)].data

C18_Witness ==
    /\ pc = "extracted" /\ result.status = "ok"
    /\ Len(archive.entries) = 2
    /\ archive.entries[1].path = <<97>> /\ archive.entries[1].data = <<1>>
    /\ archive.entries[2].path = <<97>> /\ archive.entries[2].data = <<2, 3>>
    /\ fs[Append(RootLoc, <<97>>)].data = <<2, 3>>

----------------------------------------------------------------------------
(* Further properties of the collector *)

\* C16 as stated: every entry createArchive makes has a size equal to the
\* byte length of its data, the size being taken from the bytes read, in
\* every interleaving with a process that changes the file's length between
\* the collector's steps on that file.
C16_SizeFromBytesRead ==
    \A k \in 1..Len(job.entries) : job.entries[k].size = Len(job.entries[k].data)

----------------------------------------------------------------------------
(* Further properties of the parser *)

\* The offset in the written file of the content of entries[k]: the end of
\* its MIME string.
ContentStart(k) ==
    RowOffset(k - 1) + Len(Block(archive.entries[k])) - Len(archive.entries[k].data)

\* C17: readArchive delimits the content of an entry by its declared size
\* only.  Reading back a file writeArchive wrote always succeeds; an entry
\* whose size bytes lie within the file comes back with exactly the size
\* bytes that follow its MIME string -- a prefix of its content if the size
\* is smaller than the content, its content and then bytes of what follows
\* if it is larger -- and whatever the table's entry-length fields hold,
\* the result is the same.
C17_SizeDelimitsContent ==
    (pc = "read" /\ archive.version = ARCHIVE_VERSION) =>
        /\ result.status = "ok"
        /\ Len(result.archive.entries) = Len(archive.entries)
        /\ \A k \in 1..Len(archive.entries) :
              LET e == archive.entries[k]
                  got == result.archive.entries[k]
                  start == ContentStart(k)
              IN  /\ got.path = e.path /\ got.size = e.size /\ got.mimeType = e.mimeType
                  /\ start + e.size <= Len(file.bytes) =>
                        /\ got.data = SubSeq(file.bytes, start + 1, start + e.size)
                        /\ e.size <= Len(e.data) => got.data = SubSeq(e.data, 1, e.size)
                        /\ e.size > Len(e.data) =>
                              got.data = e.data \o SubSeq(file.bytes, start + Len(e.data) + 1,
                                                          start + e.size)
        /\ \A i \in 0..(Len(archive.entries) - 1), v \in PokeValues :
              Parse(copy(file.bytes, U32LE(v), 12 + 8 * i + 4)) = result

C17_Witness ==
    /\ pc = "read" /\ archive.version = ARCHIVE_VERSION
    /\ Len(archive.entries) = 2
    /\ archive.entries[1].size = 2 /\ archive.entries[1].data = <<>>
    /\ archive.entries[2].path = <<97>>
    /\ archive.entries[2].size = 0 /\ archive.entries[2].data = <<7, 200>>
    /\ result.status = "ok"
    /\ result.archive.entries[1].data = <<1, 0>>
    /\ result.archive.entries[2].data = <<>>

----------------------------------------------------------------------------
(* commands.ts: handleCompress *)

\* '.archive.tmp'
DOT_ARCHIVE_TMP == DOT_ARCHIVE \o <<46, 116, 109, 112>>

\* "/o/z", "/f/z" (below the regular file /f)
CompressOutputs == {<<47, 111, 47, 122>>, <<47, 102, 47, 122>>}

\* --archive, --algorithm, --level, --include, --exclude; levels '9', '0'
CompressCliOptions ==
    { [archive |-> ar, hasAlgorithm |-> a[1], algorithm |-> a[2],
       hasLevel |-> l[1], level |-> l[2],
       hasInclude |-> p, include |-> IF p THEN STARSTAR_TXT \o <<44>> \o STARSTAR_DOTENV ELSE <<>>,
       hasExclude |-> p, exclude |-> IF p THEN STARSTAR_E_TXT ELSE <<>>] :
          ar \in BOOLEAN,
          a \in {<<FALSE, <<>>>>, <<TRUE, BROTLI>>, <<TRUE, DEFLATE>>, <<TRUE, INVALID>>},
          l \in {<<FALSE, <<>>>>, <<TRUE, <<57>>>>, <<TRUE, <<48>>>>},
          p \in BOOLEAN }

IdleCompressCommand ==
    [state |-> "idle", source |-> <<>>, output |-> <<>>,
     options |-> [archive |-> FALSE, hasAlgorithm |-> FALSE, algorithm |-> <<>>,
                  hasLevel |-> FALSE, level |-> <<>>,
                  hasInclude |-> FALSE, include |-> <<>>,
                  hasExclude |-> FALSE, exclude |-> <<>>],
     fileToCompress |-> <<>>, tempPath |-> <<>>, created |-> FALSE,
     algorithm |-> GZIP, error |-> "", detail |-> <<>>, messages |-> <<>>]

\* z.string().regex(/^[1-9]$/)
LevelSchema(level) == Len(level) = 1 /\ level[1] >= 49 /\ level[1] <= 57

\* The archiveOptions handleCompress builds: the patterns split at commas,
\* an empty option counting as not given.
archiveOptionsOf(options) ==
    [hasInclude |-> options.hasInclude /\ options.include # <<>>,
     include |-> SplitBy(options.include, 44, 1, <<>>),
     hasExclude |-> options.hasExclude /\ options.exclude # <<>>,
     exclude |-> SplitBy(options.exclude, 44, 1, <<>>)]

\* "if (tempPath && fs.existsSync(tempPath)) { try { fs.unlinkSync(tempPath) }
\* catch { warning(...) } }": the tree afterwards and the messages emitted.
cleanup(tree, j, unlinkThrows) ==
    IF j.tempPath # <<>> /\ Exists(tree, resolve(j.tempPath))
    THEN IF unlinkThrows \/ ~IsFile(tree, resolve(j.tempPath))
         THEN [tree |-> tree,
               messages |-> <<Message("warning", "Failed to clean up temporary file: ",
                                      "", j.tempPath)>>]
         ELSE [tree |-> unlink(tree, resolve(j.tempPath)), messages |-> <<>>]
    ELSE [tree |-> tree, messages |-> <<>>]

\* handleCompress from "const sourceInfo = getFileInfo(fileToCompress)" up to
\* the call of compressFile: the job afterwards and the tree.
prepare(tree, j, unlinkThrows) ==
    IF ~Exists(tree, resolve(j.fileToCompress))
    THEN [tree |-> cleanup(tree, j, unlinkThrows).tree,
          job |-> [j EXCEPT !.state = "done",
                     !.messages = @ \o <<Message("error", "Failed to get source file info: ",
                                                 "", j.fileToCompress)>>
                                    \o cleanup(tree, j, unlinkThrows).messages]]
    ELSE LET named == IF j.options.hasAlgorithm /\ j.options.algorithm # <<>>
                      THEN getCompressionAlgorithm(j.options.algorithm)
                      ELSE Resolved(GZIP)
         IN  IF named.status # "ok"
             THEN [tree |-> tree,
                   job |-> [j EXCEPT !.state = "done",
                              !.messages = Append(@, Message("error", "Failed to compress: ",
                                                             named.error, named.detail))]]
             ELSE [tree |-> tree,
                   job |-> [j EXCEPT !.state = "compress", !.algorithm = named.data,
                              !.messages = Append(@, Message("spinner", "Compressing ", "",
                                                             named.data))]]

\* handleCompress(sourcePath, outputPath, options) up to its first await.
HandleCompress ==
    /\ pc = "handleCompress"
    /\ job.state = "idle"
    /\ \E source \in SourcePaths \cup {<<>>}, output \in CompressOutputs,
          options \in CompressCliOptions :
          LET j == [job EXCEPT !.source = source, !.output = output, !.options = options]
              stop(text, msg, d) ==
                  job' = [j EXCEPT !.state = "done",
                                   !.messages = Append(@, Message("error", text, msg, d))]
          IN  IF source = <<>> \/ output = <<>>
              THEN stop("Validation error: ", "Path must not be empty", <<>>)
              ELSE IF options.hasLevel /\ ~LevelSchema(options.level)
              THEN stop("Validation error: ", "Compression level must be between 1-9", <<>>)
              ELSE IF IsDir(fs, resolve(source)) /\ options.archive
              THEN job' = [j EXCEPT !.state = "archive",
                                    !.tempPath = output \o DOT_ARCHIVE_TMP,
                                    !.messages = Append(@, Message("spinner",
                                        "Creating archive from directory...", "", <<>>))]
              ELSE IF ~Exists(fs, resolve(source))
              THEN stop("Path does not exist: ", "", source)
              ELSE IF ~IsFile(fs, resolve(source))
              THEN stop("Path is not a file: ", "", source)
              ELSE job' = prepare(fs, [j EXCEPT !.fileToCompress = source], FALSE).job
    /\ UNCHANGED <<pc, archive, file, result, tampers, fs>>

\* await archiveDirectory(sourcePath, tempPath, archiveOptions) settles: it
\* wrote the file, failed before writing, or failed while writing (the disk
\* full) with part of the file left.
CompressArchive ==
    /\ job.state = "archive"
    /\ \E files \in globbed(fs, job.source, archiveOptionsOf(job.options)),
          disk \in {"ok", "full"} :
          LET e == archiveDirectory(fs, job.source, job.tempPath, files)
              r == IF e.error = "" /\ disk = "full"
                   THEN Effect(writeFile(e.tree, resolve(job.tempPath), <<>>), "ENOSPC", <<>>)
                   ELSE e
          IN  /\ fs' = r.tree
              /\ job' = [job EXCEPT !.state = "archived", !.error = r.error,
                                    !.detail = r.detail,
                                    !.created = IsFile(r.tree, resolve(job.tempPath))]
    /\ UNCHANGED <<pc, archive, file, result, tampers>>

\* handleCompress goes on after archiveDirectory: the catch block, or
\* fileToCompress = tempPath and on to the call of compressFile.
CompressArchived ==
    /\ job.state = "archived"
    /\ \E unlinkThrows \in BOOLEAN :
          IF job.error # ""
          THEN /\ fs' = cleanup(fs, job, unlinkThrows).tree
               /\ job' = [job EXCEPT !.state = "done",
                            !.messages = @ \o <<Message("fail", "Failed to archive directory",
                                                        "", <<>>)>>
                                           \o cleanup(fs, job, unlinkThrows).messages
                                           \o <<Message("error", "Archive error: ",
                                                        job.error, job.detail)>>]
          ELSE LET j == [job EXCEPT !.fileToCompress = job.tempPath,
                           !.messages = Append(@, Message("succeed",
                               "Directory archived to temporary file: ", "", job.tempPath))]
               IN  /\ fs' = prepare(fs, j, unlinkThrows).tree
                   /\ job' = prepare(fs, j, unlinkThrows).job
    /\ UNCHANGED <<pc, archive, file, result, tampers>>

\* await compressFile(fileToCompress, outputPath, compressOptions) settles;
\* the finally block; the outer catch.
CompressFile ==
    /\ job.state = "compress"
    /\ \E unlinkThrows \in BOOLEAN :
          LET e == compressFile(fs, job.fileToCompress, job.output,
                     [algorithm |-> job.algorithm, hasLevel |-> job.options.hasLevel,
                      level |-> IF job.options.hasLevel THEN job.options.level[1] - 48 ELSE 0])
              c == cleanup(e.tree, job, unlinkThrows)
          IN  /\ fs' = c.tree
              /\ job' = [job EXCEPT !.state = "done",
                           !.messages = @ \o
                              (IF e.error # ""
                               THEN <<Message("fail", "Failed to compress ", "", <<>>)>>
                               ELSE <<Message("succeed", "compressed: ", "", job.output)>>)
                              \o c.messages
                              \o (IF e.error # ""
                                  THEN <<Message("error", "Failed to compress: ",
                                                 e.error, e.detail)>>
                                  ELSE <<>>)]
    /\ UNCHANGED <<pc, archive, file, result, tampers>>

\* Another process removes the temporary archive while the handler waits.
RemoveTemp ==
    /\ job.state \in {"archived", "compress"}
    /\ tampers < MaxTampers
    /\ IsFile(fs, resolve(job.tempPath))
    /\ fs' = unlink(fs, resolve(job.tempPath))
    /\ tampers' = tampers + 1
    /\ UNCHANGED <<pc, archive, file, result, job>>

InitHandleCompress ==
    /\ pc = "handleCompress"
    /\ archive = NoArchive
    /\ file = NoFile
    /\ result = NoOutcome
    /\ tampers = 0
    /\ fs \in PackageTrees
    /\ job = IdleCompressCommand

NextHandleCompress ==
    \/ HandleCompress
    \/ CompressArchive
    \/ CompressArchived
    \/ CompressFile
    \/ RemoveTemp

SpecHandleCompress == InitHandleCompress /\ [][NextHandleCompress]_vars

----------------------------------------------------------------------------
(* Properties of handleCompress *)

Warned ==
    \E i \in 1..Len(job.messages) :
        job.messages[i] = Message("warning", "Failed to clean up temporary file: ", "",
                                  job.tempPath)

\* C20 as stated: whenever handleCompress, called with --archive on a
\* directory, returns after the temporary archive '<output>.archive.tmp'
\* came into existence, that file has been unlinked or, the unlinking having
\* thrown, the warning 'Failed to clean up temporary file: <path>' was
\* emitted -- on every exit path.
C20_TempCleanedUp ==
    (job.state = "done" /\ job.created) =>
        (~Exists(fs, resolve(job.tempPath)) \/ Warned)

----------------------------------------------------------------------------
(* Further properties of handlePackage *)

\* C21 as stated: after handlePackage returns, the intermediate
\* '<output>.archive' file that the archive stage produced no longer exists,
\* with or without signing.
C21_ArchiveRemoved ==
    (job.state = "done" /\ job.caller = "cli"
        /\ \E i \in 1..Len(job.log) : job.log[i].stage = "archive")
        => ~Exists(fs, resolve(job.archivePath))

----------------------------------------------------------------------------
(* compression.ts: decompressFile, and commands.ts: handleDecompress *)

\* '.gzip', '.brotli', '.deflate', '.decompressed.tmp'
DOT_GZIP == <<46>> \o GZIP

DOT_BROTLI == <<46>> \o BROTLI

DOT_DEFLATE == <<46>> \o DEFLATE

DOT_DECOMPRESSED_TMP ==
    <<46, 100, 101, 99, 111, 109, 112, 114, 101, 115, 115, 101, 100, 46, 116, 109, 112>>

\* The index of the last '.' among the first k characters of name, 0 for none
RECURSIVE lastDot(_, _)
lastDot(name, k) ==
    IF k = 0 THEN 0 ELSE IF name[k] = 46 THEN k ELSE lastDot(name, k - 1)

\* path.extname(filePath): from the last '.' of the base name to its end;
\* '' when there is no '.' or when the only one starts the name.
extname(filePath) ==
    LET segs == Split(filePath)
        name == segs[Len(segs)]
        k == lastDot(name, Len(name))
    IN  IF k <= 1 THEN <<>> ELSE SubSeq(name, k, Len(name))

\* extensionToAlgorithm[ext] || null
detectAlgorithmFromExtension(filePath) ==
    LET ext == toLowerCase(extname(filePath)) IN
    IF ext \in {DOT_GZ, DOT_GZIP} THEN GZIP
    ELSE IF ext \in {DOT_BR, DOT_BROTLI} THEN BROTLI
    ELSE NoAlgorithm

\* "if (!algorithm) { const detectedAlgorithm = ...; if (detectedAlgorithm)
\* algorithm = detectedAlgorithm }"
algorithmFor(inputPath, algorithm) ==
    IF algorithm = NoAlgorithm THEN detectAlgorithmFromExtension(inputPath) ELSE algorithm

\* decompressFile(inputPath, outputPath, algorithm): readFile, the
\* algorithm, decompressData, mkdir, writeFile
decompressFile(tree, inputPath, outputPath, algorithm) ==
    IF ~IsFile(tree, resolve(inputPath))
    THEN Effect(tree, IF Exists(tree, resolve(inputPath)) THEN "EISDIR" ELSE "ENOENT", <<>>)
    ELSE LET decompressed == decompressData(tree[resolve(inputPath)].data,
                                            algorithmFor(inputPath, algorithm))
         IN  IF decompressed.status # "ok"
             THEN Effect(tree, decompressed.error, decompressed.detail)
             ELSE writeTo(tree, resolve(outputPath), decompressed.data)

\* unarchiveFile(archivePath, outputPath): readArchive, extractArchive
unarchiveFile(tree, archivePath, outputPath) ==
    IF ~IsFile(tree, resolve(archivePath))
    THEN Effect(tree, IF Exists(tree, resolve(archivePath)) THEN "EISDIR" ELSE "ENOENT", <<>>)
    ELSE LET read == Parse(tree[resolve(archivePath)].data) IN
         IF read.status # "ok" THEN Effect(tree, read.error, read.detail)
         ELSE LET e == Extract(tree, read.archive, outputPath)
              IN  Effect(e.tree, e.error, e.at)

\* fs.promises.copyFile(src, dest)
copyFile(tree, src, dest) ==
    IF ~IsFile(tree, src) THEN Effect(tree, "ENOENT", <<>>)
    ELSE IF writeFileFails(tree, dest) THEN Effect(tree, "EISDIR", <<>>)
    ELSE Effect(writeFile(tree, dest, tree[src].data), "", <<>>)

\* unarchiveErr.message.includes('Invalid archive format')
INVALID_ARCHIVE_FORMAT == "Invalid archive format"

includes(message, phrase) ==
    \E k \in 0..(Len(message) - Len(phrase)) :
        SubSeq(message, k + 1, k + Len(phrase)) = phrase

\* zlib.deflateSync of another program: a zlib header (78 9C), the body as
\* stored bytes and a check byte
deflated(data) == <<120, 156>> \o data \o <<SumSeq(data) % 256>>

\* The archive { 'a': <01> } as writeArchive serializes it
SmallArchive ==
    [version |-> ARCHIVE_VERSION,
     entries |-> <<[path |-> <<97>>, size |-> 1, mimeType |-> <<116>>, data |-> <<1>>]>>]

\* The compressed files of the directory /c, by name: a.gz, r.gz (an
\* archive), a.br, a.deflate, B.GZ (brotli inside), x.br (gzip inside), g
\* (gzip), b (brotli), j (neither)
CompressedFiles ==
    { <<<<97>> \o DOT_GZ, gzip(<<7, 200>>, DefaultLevel)>>,
      <<<<114>> \o DOT_GZ, gzip(Serialize(SmallArchive), DefaultLevel)>>,
      <<<<97>> \o DOT_BR, brotliCompress(<<7, 200>>, DefaultLevel)>>,
      <<<<97>> \o DOT_DEFLATE, deflated(<<7, 200>>)>>,
      <<<<66, 46, 71, 90>>, brotliCompress(<<7, 200>>, DefaultLevel)>>,
      <<<<120>> \o DOT_BR, gzip(<<7, 200>>, DefaultLevel)>>,
      <<<<103>>, gzip(<<7, 200>>, DefaultLevel)>>,
      <<<<98>>, brotliCompress(Serialize(SmallArchive), DefaultLevel)>>,
      <<<<106>>, <<7, 200>>>> }

\* "/c/" + name for every compressed file, "/c" (a directory), "/c/m" (no
\* file) and ""
DecompressInputs ==
    { <<47, 99, 47>> \o f[1] : f \in CompressedFiles }
        \cup { <<47, 99>>, <<47, 99, 47, 109>> }

\* "/o/u", "/f/u" (below the regular file /f), "/c" (a directory)
DecompressOutputs == {<<47, 111, 47, 117>>, <<47, 102, 47, 117>>, <<47, 99>>}

\* "/" with the regular file /f and the directory /c of compressed files
DecompressTree ==
    LET base == writeFile(mkdir(EmptyTree, <<<<99>>>>), <<<<102>>>>, <<1>>) IN
    [l \in DOMAIN base \cup { <<<<99>>, f[1]>> : f \in CompressedFiles } |->
        IF l \in DOMAIN base THEN base[l]
        ELSE FileNode((CHOOSE f \in CompressedFiles : f[1] = l[2])[2])]

\* The options of the decompress command: --algorithm, --unarchive
DecompressCliOptions ==
    [hasAlgorithm : {TRUE}, algorithm : {GZIP, toLowerCase(BROTLI), INVALID},
     unarchive : BOOLEAN]
        \cup [hasAlgorithm : {FALSE}, algorithm : {<<>>}, unarchive : BOOLEAN]

IdleDecompress ==
    [state |-> "idle", caller |-> "", source |-> <<>>, output |-> <<>>,
     options |-> [hasAlgorithm |-> FALSE, algorithm |-> <<>>, unarchive |-> FALSE],
     algorithm |-> NoAlgorithm, tempPath |-> <<>>, decompressedPath |-> <<>>,
     decompressed |-> <<>>, messages |-> <<>>, outcome |-> ""]

\* decompressFile(inputPath, outputPath, algorithm) called directly
DecompressFile ==
    /\ pc = "decompress"
    /\ job.state = "idle"
    /\ \E input \in DecompressInputs, output \in DecompressOutputs,
          algorithm \in CompressionAlgorithm \cup {NoAlgorithm} :
          LET e == decompressFile(fs, input, output, algorithm) IN
          /\ fs' = e.tree
          /\ job' = [job EXCEPT !.state = "done", !.caller = "api", !.source = input,
                                !.output = output, !.algorithm = algorithm,
                                !.decompressedPath = output,
                                !.outcome = IF e.error = "" THEN "ok" ELSE "failed"]
          /\ result' = IF e.error = "" THEN Resolved(e.tree[resolve(output)].data)
                       ELSE Rejected(e.error, e.detail)
    /\ UNCHANGED <<pc, archive, file, tampers>>

\* "finally { if (tempPath && fs.existsSync(tempPath)) { try {
\* fs.unlinkSync(tempPath) } catch { warning(...) } } }": the tree and the
\* messages after it
cleanupDecompressed(tree, j, messages) ==
    IF j.tempPath # <<>> /\ Exists(tree, resolve(j.tempPath))
    THEN IF IsFile(tree, resolve(j.tempPath))
         THEN [tree |-> unlink(tree, resolve(j.tempPath)), messages |-> messages]
         ELSE [tree |-> tree,
               messages |-> Append(messages,
                   Message("warning", "Failed to clean up temporary file: ", "", j.tempPath))]
    ELSE [tree |-> tree, messages |-> messages]

\* A failure inside the inner try of handleDecompress: spinner.fail, the
\* finally block, then the outer catch and its error()
Fails(tree, messages, effect) ==
    LET c == cleanupDecompressed(tree, job,
                 Append(messages, Message("fail", "Processing failed", "", <<>>)))
    IN  /\ fs' = c.tree
        /\ job' = [job EXCEPT !.state = "done", !.outcome = "failed",
                     !.messages = Append(c.messages,
                         Message("error", "Failed to process file: ",
                                 effect.error, effect.detail))]
        /\ result' = Resolved(<<>>)

\* The end of the inner try of handleDecompress: spinner.succeed and the
\* finally block
Succeeds(tree, messages, text) ==
    LET c == cleanupDecompressed(tree, job,
                 Append(messages, Message("succeed", text, "", job.output)))
    IN  /\ fs' = c.tree
        /\ job' = [job EXCEPT !.state = "done", !.outcome = "ok", !.messages = c.messages]
        /\ result' = Resolved(<<>>)

\* handleDecompress(sourcePath, outputPath, options) up to the call of
\* decompressFile: validateParams, validatePath, getCompressionAlgorithm,
\* the temporary path
HandleDecompress ==
    /\ pc = "decompress"
    /\ job.state = "idle"
    /\ \E source \in DecompressInputs \cup {<<>>}, output \in DecompressOutputs,
          options \in DecompressCliOptions :
          LET j == [job EXCEPT !.caller = "cli", !.source = source, !.output = output,
                               !.options = options]
              named == IF options.hasAlgorithm
                       THEN getCompressionAlgorithm(options.algorithm)
                       ELSE Resolved(NoAlgorithm)
              tempPath == IF options.unarchive THEN output \o DOT_DECOMPRESSED_TMP ELSE <<>>
              stop(text, msg, d) ==
                  /\ job' = [j EXCEPT !.state = "done", !.outcome = "failed",
                                      !.messages = Append(@, Message("error", text, msg, d))]
                  /\ result' = Resolved(<<>>)
          IN  IF source = <<>> \/ output = <<>>
              THEN stop("Validation error: ", "Path must not be empty", <<>>)
              ELSE IF ~Exists(fs, resolve(source))
              THEN stop("Path does not exist: ", "", source)
              ELSE IF ~IsFile(fs, resolve(source))
              THEN stop("Path is not a file: ", "", source)
              ELSE IF named.status # "ok"
              THEN stop("Failed to process file: ", named.error, named.detail)
              ELSE /\ job' = [j EXCEPT !.state = "decompress", !.algorithm = named.data,
                                       !.tempPath = tempPath,
                                       !.decompressedPath =
                                           IF options.unarchive THEN tempPath ELSE output]
                   /\ UNCHANGED result
    /\ UNCHANGED <<pc, archive, file, tampers, fs>>

\* await decompressFile(sourcePath, decompressedPath, algorithm)
DecompressSource ==
    /\ job.state = "decompress"
    /\ LET e == decompressFile(fs, job.source, job.decompressedPath, job.algorithm) IN
       IF e.error # "" THEN Fails(e.tree, job.messages, e)
       ELSE IF ~job.options.unarchive
       THEN Succeeds(e.tree, job.messages, "File decompressed: ")
       ELSE /\ fs' = e.tree
            /\ job' = [job EXCEPT !.state = "unarchive",
                         !.decompressed = e.tree[resolve(job.decompressedPath)].data]
            /\ UNCHANGED result
    /\ UNCHANGED <<pc, archive, file, tampers>>

\* "if (shouldUnarchive) { try { await mkdir(outputDir); await
\* unarchiveFile(decompressedPath, outputPath) } catch (unarchiveErr) {...} }"
\* and the rest of the handler
DecompressUnarchive ==
    /\ job.state = "unarchive"
    /\ LET outputDir == dirname(resolve(job.output))
           extracted == Message("succeed", "Archive extracted to: ", "", job.output)
           failed == Message("fail", "Failed to extract archive", "", <<>>)
           done == "File decompressed and extracted to: "
       IN  IF mkdirFails(fs, outputDir)
           THEN Fails(fs, Append(job.messages, failed), Effect(fs, "EEXIST", <<>>))
           ELSE LET u == unarchiveFile(mkdir(fs, outputDir), job.decompressedPath, job.output)
                IN  IF u.error = ""
                    THEN Succeeds(u.tree, Append(job.messages, extracted), done)
                    ELSE IF includes(u.error, INVALID_ARCHIVE_FORMAT)
                    THEN LET c == copyFile(u.tree, resolve(job.decompressedPath),
                                           resolve(job.output))
                             warned == job.messages \o
                                 <<failed, Message("warning", "The decompressed file is not a valid archive. Saving as regular file.", "", <<>>)>>
                         IN  IF c.error # "" THEN Fails(c.tree, warned, c)
                             ELSE Succeeds(c.tree, warned, done)
                    ELSE Fails(u.tree, Append(job.messages, failed), u)
    /\ UNCHANGED <<pc, archive, file, tampers>>

InitDecompress ==
    /\ pc = "decompress"
    /\ archive = NoArchive
    /\ file = NoFile
    /\ result = NoOutcome
    /\ tampers = 0
    /\ fs = DecompressTree
    /\ job = IdleDecompress

NextDecompress ==
    \/ DecompressFile
    \/ HandleDecompress
    \/ DecompressSource
    \/ DecompressUnarchive

SpecDecompress == InitDecompress /\ [][NextDecompress]_vars

----------------------------------------------------------------------------
(* Properties of handleDecompress and decompressFile *)

\* C22 as stated: with --unarchive, when the decompressed file is not a
\* valid archive, handleDecompress does not fail: it emits the warning 'The
\* decompressed file is not a valid archive. Saving as regular file.', copies
\* the decompressed bytes to the output path and removes the temporary
\* '<output>.decompressed.tmp' file, for the error that unarchiveFile
\* actually raises on an input that is not an archive.
C22_NonArchiveSavedAsFile ==
    (/\ job.state = "done" /\ job.caller = "cli" /\ job.options.unarchive
     /\ job.decompressed # <<>>
     /\ Parse(job.decompressed).status # "ok"
     /\ ~mkdirFails(fs, dirname(resolve(job.output)))
     /\ ~IsDir(fs, resolve(job.output))) =>
        /\ job.outcome = "ok"
        /\ \E i \in 1..Len(job.messages) :
              /\ job.messages[i].kind = "warning"
              /\ job.messages[i].text = "The decompressed file is not a valid archive. Saving as regular file."
        /\ ~\E i \in 1..Len(job.messages) : job.messages[i].kind = "error"
        /\ IsFile(fs, resolve(job.output))
        /\ fs[resolve(job.output)].data = job.decompressed
        /\ ~Exists(fs, resolve(job.tempPath))

\* zlib.inflateSync: the inverse of deflated
inflated(data) ==
    IF /\ Len(data) >= 3
       /\ SubSeq(data, 1, 2) = <<120, 156>>
       /\ data[Len(data)] = SumSeq(SubSeq(data, 3, Len(data) - 1)) % 256
    THEN Resolved(SubSeq(data, 3, Len(data) - 1))
    ELSE Rejected("incorrect header check", <<>>)

\* What decoding data as the named format gives
Decoded(data, algorithm) ==
    IF algorithm = GZIP THEN gunzip(data)
    ELSE IF algorithm = BROTLI THEN brotliDecompress(data)
    ELSE inflated(data)

\* C25 as stated: decompressFile uses an explicitly passed algorithm;
\* otherwise the algorithm of the input file's extension ('.gz', '.br' and
\* '.deflate' each decompress correctly with no algorithm given); otherwise
\* it sniffs the header: data starting with 1F 8B is gzip, anything else is
\* tried as brotli; when no algorithm is given and nothing decodes, it fails
\* with a message that starts with 'Decompression failed'.
C25_AlgorithmPrecedence ==
    (/\ job.state = "done" /\ job.caller = "api"
     /\ IsFile(fs, resolve(job.source))
     /\ job.output = <<47, 111, 47, 117>>) =>
        LET data == fs[resolve(job.source)].data
            ext == toLowerCase(extname(job.source))
            sniffed == IF Len(data) >= 2 /\ SubSeq(data, 1, 2) = <<31, 139>>
                       THEN GZIP ELSE BROTLI
        IN  /\ job.algorithm # NoAlgorithm =>
                  result.status = Decoded(data, job.algorithm).status
            /\ (job.algorithm = NoAlgorithm /\ ext = DOT_GZ) => result = Decoded(data, GZIP)
            /\ (job.algorithm = NoAlgorithm /\ ext = DOT_BR) => result = Decoded(data, BROTLI)
            /\ (job.algorithm = NoAlgorithm /\ ext = DOT_DEFLATE) =>
                  result = Decoded(data, DEFLATE)
            /\ (job.algorithm = NoAlgorithm /\ ext \notin {DOT_GZ, DOT_BR, DOT_DEFLATE}) =>
                  /\ result.status = Decoded(data, sniffed).status
                  /\ result.status = "ok" => result = Decoded(data, sniffed)
                  /\ result.status = "error" =>
                        SubSeq(result.error, 1, 20) = "Decompression failed"

----------------------------------------------------------------------------
(* commands.ts: the nine command handlers around the core operations.      *)
(* Here a core operation is the environment of the handler: a call of it   *)
(* resolves, rejects with an Error or rejects with another value.          *)

Handlers ==
    {"archive", "compress", "decompress", "sign", "verify", "generateKeys",
     "derivePublicKey", "package", "unarchive"}

\* The text error() is given in the catch block of each handler
Prefix(handler) ==
    CASE handler = "archive" -> "Failed to create archive: "
      [] handler = "compress" -> "Failed to compress: "
      [] handler = "decompress" -> "Failed to process file: "
      [] handler = "sign" -> "Failed to create signature: "
      [] handler = "verify" -> "Failed to verify signature: "
      [] handler = "generateKeys" -> "Failed to generate key pair: "
      [] handler = "derivePublicKey" -> "Failed to derive public key: "
      [] handler = "package" -> "Failed to create package: "
      [] handler = "unarchive" -> "Failed to extract archive: "

\* const shouldArchive = isDirectory && options.archive
shouldArchive(tree, a, options) == IsDir(tree, resolve(a)) /\ options.archive

\* The core operations a handler awaits, in order, when none of them fails
CoreCalls(handler, tree, a, options) ==
    CASE handler = "archive" -> <<"archiveDirectory">>
      [] handler = "compress" ->
             IF shouldArchive(tree, a, options)
             THEN <<"archiveDirectory", "compressFile">> ELSE <<"compressFile">>
      [] handler = "decompress" ->
             IF options.archive THEN <<"decompressFile", "unarchiveFile">>
             ELSE <<"decompressFile">>
      [] handler = "sign" -> <<"signFile">>
      [] handler = "verify" -> <<"verifyFile">>
      [] handler = "generateKeys" -> <<"generateAndSaveKeyPair">>
      [] handler = "derivePublicKey" -> <<"deriveAndSavePublicKey">>
      [] handler = "package" -> <<"createPackage">>
      [] handler = "unarchive" -> <<"unarchiveFile">>

\* validateParams(schemas, values): the message of the first schema that
\* does not parse, "" when all parse
validateParams(handler, a, b, options) ==
    IF a = <<>> \/ b = <<>> THEN "Path must not be empty"
    ELSE IF handler = "compress" /\ options.level # <<>> /\ ~LevelSchema(options.level)
    THEN "Compression level must be between 1-9"
    ELSE IF handler = "sign" /\ options.key = <<>> THEN "Private key path is required"
    ELSE IF handler = "verify" /\ options.key = <<>> THEN "Public key path is required"
    ELSE ""

\* (mutation: the type of the path is not looked at)
validatePath_AnyType(tree, path, type) ==
    IF ~Exists(tree, resolve(path)) THEN "Path does not exist: " ELSE ""

\* validatePath(path, type): the text given to error(), "" for true
validatePath(tree, path, type) ==
    IF ~Exists(tree, resolve(path)) THEN "Path does not exist: "
    ELSE IF type = "file" /\ ~IsFile(tree, resolve(path)) THEN "Path is not a file: "
    ELSE IF type = "directory" /\ ~IsDir(tree, resolve(path))
    THEN "Path is not a directory: "
    ELSE ""

\* The validatePath calls of a handler, in order
PathChecks(handler, tree, a, b, options) ==
    LET isFile(p) == <<[path |-> p, type |-> "file"]>>
        isDir(p) == <<[path |-> p, type |-> "directory"]>>
        key == IF options.key # <<>> THEN isFile(options.key) ELSE <<>>
    IN  CASE handler \in {"archive", "package"} -> isDir(a)
          [] handler = "compress" ->
                 IF shouldArchive(tree, a, options) THEN isDir(a) ELSE isFile(a)
          [] handler \in {"decompress", "derivePublicKey", "unarchive"} -> isFile(a)
          [] handler = "sign" -> isFile(a) \o key
          [] handler = "verify" -> isFile(a) \o isFile(b) \o key
          [] handler = "generateKeys" -> <<>>

\* The checks made up to and including the first that returns false
RECURSIVE RunChecks(_, _, _)
RunChecks(tree, checks, k) ==
    IF k > Len(checks) THEN <<>>
    ELSE LET text == validatePath(tree, checks[k].path, checks[k].type)
             made == <<[path |-> checks[k].path, type |-> checks[k].type, text |-> text]>>
         IN  IF text # "" THEN made ELSE made \o RunChecks(tree, checks, k + 1)

\* "", "/s" (a directory), "/f" (a file), "/q" (nothing)
HandlerPaths == {<<>>, <<47, 115>>, <<47, 102>>, <<47, 113>>}

\* "", "/o", "/f"
HandlerOutputs == {<<>>, <<47, 111>>, <<47, 102>>}

\* --privkey / --pubkey ("/k" a key file, "/n" nothing), --algorithm,
\* --level, and --archive / --unarchive
HandlerOptions ==
    [key : {<<>>, KeyPath, NoKeyPath}, algorithm : {<<>>, INVALID},
     level : {<<>>, <<48>>}, archive : BOOLEAN]

\* What a call of a core operation comes to
CoreOutcomes ==
    { [kind |-> "resolve", message |-> ""],
      [kind |-> "Error", message |-> "EACCES: permission denied"],
      [kind |-> "Error", message |-> "Invalid archive format"],
      [kind |-> "other", message |-> ""] }

IdleHandler ==
    [state |-> "idle", handler |-> "", a |-> <<>>, b |-> <<>>,
     options |-> [key |-> <<>>, algorithm |-> <<>>, level |-> <<>>, archive |-> FALSE],
     checks |-> <<>>, queue |-> <<>>, calls |-> <<>>, thrown |-> <<>>,
     messages |-> <<>>, outcome |-> ""]

\* catch (err) { if (err instanceof Error) error(`<prefix>: ${err.message}`)
\* else error('<prefix>: Unknown error') }
caught(handler, outcome) ==
    IF outcome.kind = "Error" THEN Message("error", Prefix(handler), outcome.message, <<>>)
    ELSE Message("error", Prefix(handler), "Unknown error", <<>>)

\* The file a resolved core operation has left in the tree
made(tree, op, j) ==
    CASE op = "archiveDirectory" /\ j.handler = "compress" ->
             writeTo(tree, resolve(j.b \o DOT_ARCHIVE_TMP), <<1>>).tree
      [] op = "compressFile" -> writeTo(tree, resolve(j.b), <<2>>).tree
      [] op = "createPackage" -> writeTo(tree, resolve(j.b \o DOT_ARCHIVE), <<1>>).tree
      [] OTHER -> tree

\* A handler from its entry to its first await: validateParams, the
\* validatePath calls, and the algorithm where it is looked up first
Handle ==
    /\ pc = "handlers"
    /\ job.state = "idle"
    /\ \E handler \in Handlers, a \in HandlerPaths, b \in HandlerOutputs,
          options \in HandlerOptions :
          LET j == [job EXCEPT !.handler = handler, !.a = a, !.b = b, !.options = options]
              invalid == validateParams(handler, a, b, options)
              checks == RunChecks(fs, PathChecks(handler, fs, a, b, options), 1)
              refused == checks # <<>> /\ checks[Len(checks)].text # ""
              named == IF options.algorithm # <<>>
                       THEN getCompressionAlgorithm(options.algorithm)
                       ELSE Resolved(GZIP)
              stop(m, cs) ==
                  job' = [j EXCEPT !.state = "done", !.outcome = "returned", !.checks = cs,
                                   !.messages = <<m>>]
          IN  IF invalid # ""
              THEN stop(Message("error", "Validation error: ", invalid, <<>>), <<>>)
              ELSE IF refused
              THEN stop(Message("error", checks[Len(checks)].text, "",
                                checks[Len(checks)].path), checks)
              ELSE IF /\ \/ handler \in {"decompress", "package"}
                         \/ handler = "compress" /\ ~shouldArchive(fs, a, options)
                      /\ named.status # "ok"
              THEN stop(Message("error", Prefix(handler), named.error, named.detail), checks)
              ELSE job' = [j EXCEPT !.state = "call", !.checks = checks,
                                    !.queue = CoreCalls(handler, fs, a, options)]
    /\ result' = IF job'.state = "done" THEN Resolved(<<>>) ELSE result
    /\ UNCHANGED <<pc, archive, file, tampers, fs>>

\* The handler awaits the next core operation, the call settles, and the
\* handler runs on to its next await or to its end.
Call ==
    /\ job.state = "call"
    /\ \E outcome \in CoreOutcomes :
          LET op == Head(job.queue)
              j == [job EXCEPT !.calls = Append(@, op), !.queue = Tail(@),
                               !.thrown = IF outcome.kind = "resolve" THEN @
                                          ELSE <<[op |-> op, kind |-> outcome.kind,
                                                  message |-> outcome.message]>>]
              tree == IF outcome.kind = "resolve" THEN made(fs, op, job) ELSE fs
              temp == resolve(job.b \o DOT_ARCHIVE_TMP)
              swept == IF job.handler = "compress" /\ IsFile(tree, temp)
                       THEN unlink(tree, temp) ELSE tree
              named == IF job.options.algorithm # <<>>
                       THEN getCompressionAlgorithm(job.options.algorithm)
                       ELSE Resolved(GZIP)
              end(t, ms, how) ==
                  /\ fs' = t
                  /\ job' = [j EXCEPT !.state = "done", !.outcome = how,
                                      !.messages = @ \o ms]
                  /\ result' = Resolved(<<>>)
              next(t) ==
                  /\ fs' = t
                  /\ job' = j
                  /\ UNCHANGED result
          IN  IF job.handler = "compress" /\ op = "archiveDirectory"
              THEN \* the inner try / catch (archiveErr) of handleCompress, then
                   \* getFileInfo and getCompressionAlgorithm
                   IF outcome.kind # "resolve"
                   THEN end(swept,
                            <<Message("fail", "Failed to archive directory", "", <<>>)>>
                              \o (IF outcome.kind = "Error"
                                  THEN <<Message("error", "Archive error: ",
                                                 outcome.message, <<>>)>>
                                  ELSE <<>>),
                            "returned")
                   ELSE IF ~Exists(tree, temp)
                   THEN end(tree, <<Message("error", "Failed to get source file info: ",
                                            "", job.b \o DOT_ARCHIVE_TMP)>>, "returned")
                   ELSE IF named.status # "ok"
                   THEN end(tree, <<Message("error", Prefix("compress"), named.error,
                                            named.detail)>>, "returned")
                   ELSE next(tree)
              ELSE IF job.handler = "decompress" /\ op = "unarchiveFile"
                      /\ outcome.kind = "Error"
                      /\ includes(outcome.message, INVALID_ARCHIVE_FORMAT)
              THEN \* the fallback of handleDecompress: warning and copyFile
                   end(tree,
                       <<Message("fail", "Failed to extract archive", "", <<>>),
                         Message("warning", "The decompressed file is not a valid archive. Saving as regular file.", "", <<>>),
                         Message("succeed", "File decompressed and extracted to: ", "",
                                 job.b)>>, "returned")
              ELSE IF outcome.kind # "resolve"
              THEN end(swept, <<caught(job.handler, outcome)>>, "returned")
              ELSE IF j.queue # <<>> THEN next(tree)
              ELSE IF job.handler = "package"
              THEN \* fs.unlinkSync(result.archivePath) throws when the file is not there
                   IF IsFile(tree, resolve(job.b \o DOT_ARCHIVE))
                   THEN end(unlink(tree, resolve(job.b \o DOT_ARCHIVE)),
                            <<Message("succeed", "Package created successfully", "", <<>>)>>,
                            "returned")
                   ELSE end(tree,
                            <<Message("succeed", "Package created successfully", "", <<>>),
                              caught("package", [kind |-> "Error", message |-> "ENOENT"])>>,
                            "returned")
              ELSE end(swept, <<Message("succeed", "", "", job.b)>>, "returned")
    /\ UNCHANGED <<pc, archive, file, tampers>>

\* "/" with the directory /s, the regular file /f and the key file /k
HandlerTree ==
    writeFile(writeFile(mkdir(EmptyTree, <<<<115>>>>), <<<<102>>>>, <<1>>),
              resolve(KeyPath), <<5>>)

InitHandlers ==
    /\ pc = "handlers"
    /\ archive = NoArchive
    /\ file = NoFile
    /\ result = NoOutcome
    /\ tampers = 0
    /\ fs = HandlerTree
    /\ job = IdleHandler

NextHandlers ==
    \/ Handle
    \/ Call

SpecHandlers == InitHandlers /\ [][NextHandlers]_vars

----------------------------------------------------------------------------
(* Properties of the command handlers *)

\* The paths a command reads, with the type it needs them to have
Needs(j) ==
    LET key == IF j.options.key # <<>> THEN {<<j.options.key, "file">>} ELSE {}
    IN  CASE j.handler \in {"archive", "package"} -> {<<j.a, "directory">>}
          [] j.handler = "compress" ->
                 {<<j.a, IF j.options.archive /\ IsDir(HandlerTree, resolve(j.a))
                         THEN "directory" ELSE "file">>}
          [] j.handler \in {"decompress", "derivePublicKey", "unarchive"} ->
                 {<<j.a, "file">>}
          [] j.handler = "sign" -> {<<j.a, "file">>} \cup key
          [] j.handler = "verify" -> {<<j.a, "file">>, <<j.b, "file">>} \cup key
          [] j.handler = "generateKeys" -> {}

\* C23: in every command handler a core operation is invoked only after
\* the parameter validation and every path-type validation of the handler
\* have succeeded: an empty path argument yields a 'Validation error'
\* message and no core call, and a validatePath result of false yields no
\* core call.
C23_ValidatedBeforeCore ==
    /\ job.calls # <<>> =>
          /\ job.a # <<>> /\ job.b # <<>>
          /\ \A i \in 1..Len(job.checks) : job.checks[i].text = ""
          /\ \A n \in Needs(job) :
                /\ \E i \in 1..Len(job.checks) :
                      job.checks[i].path = n[1] /\ job.checks[i].type = n[2]
                /\ IF n[2] = "file" THEN IsFile(HandlerTree, resolve(n[1]))
                   ELSE IsDir(HandlerTree, resolve(n[1]))
    /\ (job.state = "done" /\ (job.a = <<>> \/ job.b = <<>>)) =>
          /\ job.calls = <<>>
          /\ job.messages =
                <<Message("error", "Validation error: ", "Path must not be empty", <<>>)>>
    /\ (\E i \in 1..Len(job.checks) : job.checks[i].text # "") =>
          /\ job.calls = <<>>
          /\ job.state = "done"

C23_Witness ==
    /\ job.handler = "verify"
    /\ job.calls = <<"verifyFile">>
    /\ Len(job.checks) = 3
    /\ job.checks[3].path = KeyPath

\* C24 as stated: every handler resolves and never rejects, for every input
\* and every failure of a core operation; a failure that is an Error is
\* reported through error() with the message of the Error, and any other
\* thrown value with 'Unknown error'.  (The one Error that handleDecompress
\* answers with its fallback is left aside.)
C24_FailuresReported ==
    job.state = "done" =>
        /\ result.status = "ok"
        /\ \A i \in 1..Len(job.thrown) :
              LET t == job.thrown[i] IN
              (~(job.handler = "decompress" /\ t.op = "unarchiveFile"
                    /\ includes(t.message, INVALID_ARCHIVE_FORMAT))) =>
                 \E k \in 1..Len(job.messages) :
                    /\ job.messages[k].kind = "error"
                    /\ job.messages[k].msg =
                          (IF t.kind = "Error" THEN t.message ELSE "Unknown error")

----------------------------------------------------------------------------
(* writeArchive as a whole: mkdir, the range-checked buffer, writeFile *)

\* The largest value writeUInt16LE accepts
MaxU16 == 65535

\* A number above 2^32 - 1.  The numbers of the model up to U32Cap stand for
\* the unsigned 32-bit values; this one stands for those beyond them.
Over32 == U32Cap + 1

\* writeUInt16LE(value) throws ERR_OUT_OF_RANGE unless 0 <= value <= 65535
fits16(value) == value >= 0 /\ value <= MaxU16

\* (mutation: writeUInt32LE stores any value, modulo 2^32)
fits32_Any(value) == TRUE

\* writeUInt32LE(value) throws ERR_OUT_OF_RANGE unless 0 <= value <= 2^32 - 1
fits32(value) == value >= 0 /\ value <= U32Cap

\* The loop of writeArchive from entry i on, as far as the values it hands
\* to the write methods go: the first entry (counted from 1) with a value
\* out of the range of its method, 0 when every write goes through.
RECURSIVE unwritable(_, _, _)
unwritable(entries, i, currentOffset) ==
    IF i >= Len(entries) THEN 0
    ELSE LET entry == entries[i + 1]
             entrySize == metadataSize(entry) + Len(entry.data)
         IN  IF /\ fits32(currentOffset)
                /\ fits32(entrySize)
                /\ fits16(byteLength(entry.path))
                /\ fits32(entry.size)
                /\ fits16(byteLength(entry.mimeType))
             THEN unwritable(entries, i + 1, currentOffset + entrySize)
             ELSE i + 1

\* writeArchive from Buffer.alloc to the end of the loop.  The buffer is
\* local to the call and dropped when a write throws, so it is built only
\* when every write goes through.
build(a) ==
    LET at == unwritable(a.entries, 0, HEADER_SIZE + 4 + Len(a.entries) * 8) IN
    IF ~fits32(a.version) THEN [ok |-> FALSE, buffer |-> <<>>, at |-> 0]
    ELSE IF at # 0 THEN [ok |-> FALSE, buffer |-> <<>>, at |-> at]
    ELSE [ok |-> TRUE, buffer |-> Serialize(a), at |-> 0]

\* (mutation: the entries are taken out of the archive as they are written)
writeArchive_Drains(tree, a, outputPath) ==
    [tree |-> tree, error |-> "", at |-> 0, archive |-> [a EXCEPT !.entries = <<>>]]

\* (mutation: the output file is opened, and so emptied, before the buffer
\* is built)
writeArchive_OpensFirst(tree, a, outputPath) ==
    LET out == resolve(outputPath)
        t1 == mkdir(tree, dirname(out))
    IN  IF mkdirFails(tree, dirname(out)) \/ writeFileFails(t1, out)
        THEN [tree |-> tree, error |-> "EEXIST", at |-> 0, archive |-> a]
        ELSE [tree |-> writeFile(t1, out, build(a).buffer),
              error |-> IF build(a).ok THEN "" ELSE RangeError,
              at |-> build(a).at, archive |-> a]

\* (mutation: the length of the output path stored in the header)
writeArchive_StampsPath(tree, a, outputPath) ==
    LET out == resolve(outputPath)
        t1 == mkdir(tree, dirname(out))
    IN  IF mkdirFails(tree, dirname(out)) \/ writeFileFails(t1, out) \/ ~build(a).ok
        THEN [tree |-> tree, error |-> "EEXIST", at |-> 0, archive |-> a]
        ELSE [tree |-> writeFile(t1, out, copy(build(a).buffer, <<Len(outputPath)>>, 7)),
              error |-> "", at |-> 0, archive |-> a]

\* writeArchive(archive, outputPath): the tree afterwards, the error thrown
\* ("" for none) and the Archive object as the call leaves it (the function
\* reads it and assigns to none of its fields).
writeArchive(tree, a, outputPath) ==
    LET out == resolve(outputPath) IN
    IF mkdirFails(tree, dirname(out))
    THEN [tree |-> tree, error |-> "EEXIST", at |-> 0, archive |-> a]
    ELSE LET t1 == mkdir(tree, dirname(out))
             built == build(a)
         IN  IF ~built.ok
             THEN [tree |-> t1, error |-> RangeError, at |-> built.at, archive |-> a]
             ELSE IF writeFileFails(t1, out)
             THEN [tree |-> t1, error |-> "EISDIR", at |-> 0, archive |-> a]
             ELSE [tree |-> writeFile(t1, out, built.buffer), error |-> "", at |-> 0,
                   archive |-> a]

\* The entries the caller hands to writeArchive: 'a', 'e-acute', 'd/a' with a
\* declared size that is not the content length, '../m'
WriteEntriesPool ==
    { [path |-> <<97>>, size |-> 2, mimeType |-> <<116>>, data |-> <<7, 200>>],
      [path |-> <<233>>, size |-> 0, mimeType |-> <<>>, data |-> <<>>],
      [path |-> <<100, 47, 97>>, size |-> 5, mimeType |-> <<116>>, data |-> <<1>>],
      [path |-> <<46, 46, 47, 109>>, size |-> 1, mimeType |-> <<116>>, data |-> <<3>>] }

\* 32768 times 'e-acute' (65536 bytes of UTF-8) and 65536 times 't'
LongPath == SubSeq([k \in 1..((MaxU16 + 1) \div 2) |-> 233], 1, (MaxU16 + 1) \div 2)

LongMime == SubSeq([k \in 1..(MaxU16 + 1) |-> 116], 1, MaxU16 + 1)

\* Entries with a field beyond what its length prefix or its column holds
WideEntriesPool ==
    { [path |-> <<97>>, size |-> 2, mimeType |-> <<116>>, data |-> <<7, 200>>],
      [path |-> LongPath, size |-> 1, mimeType |-> <<116>>, data |-> <<1>>],
      [path |-> <<97>>, size |-> 1, mimeType |-> LongMime, data |-> <<1>>],
      [path |-> <<97>>, size |-> Over32, mimeType |-> <<116>>, data |-> <<1>>] }

\* "/t/o" (a file that exists), "/t/n/o" (below a directory to be made),
\* "/f/o" (below the regular file /f), "/t" (a directory)
WriteOutputs ==
    { <<47, 116, 47, 111>>, <<47, 116, 47, 110, 47, 111>>, <<47, 102, 47, 111>>,
      <<47, 116>> }

\* "/" with the directory /t, the files /f and /t/o
WriteTree ==
    writeFile(writeFile(EmptyTree, <<<<102>>>>, <<1>>), <<<<116>>, <<111>>>>, <<9>>)

IdleWrite == [state |-> "idle", runs |-> <<>>]

\* await writeArchive(archive, outputPath), for the first or the second time
\* on the same Archive object
WriteArchiveFile(outputs) ==
    /\ pc \in {"build", "written"}
    /\ Len(job.runs) < 2
    /\ \E outputPath \in outputs :
          LET e == writeArchive(fs, archive, outputPath) IN
          /\ fs' = e.tree
          /\ archive' = e.archive
          /\ job' = [job EXCEPT !.runs = Append(@, [output |-> outputPath,
                                                     before |-> fs,
                                                     error |-> e.error])]
          /\ result' = IF e.error = "" THEN Ok("write", e.archive)
                       ELSE Err("write", e.error, e.at)
          /\ file' = IF IsFile(e.tree, resolve(outputPath))
                     THEN [exists |-> TRUE, bytes |-> e.tree[resolve(outputPath)].data]
                     ELSE NoFile
    /\ pc' = "written"
    /\ UNCHANGED tampers

InitWrite ==
    /\ pc = "build"
    /\ archive \in [version : Versions, entries : {<<>>}]
    /\ file = NoFile
    /\ result = NoResult
    /\ tampers = 0
    /\ fs = WriteTree
    /\ job = IdleWrite

NextWrite ==
    \/ AddEntry(WriteEntriesPool)
    \/ WriteArchiveFile(WriteOutputs)
    \/ ReadArchive
    \/ ExtractArchive

SpecWrite == InitWrite /\ [][NextWrite]_vars

\* writeArchive on entries and versions that reach the limits of the format
InitWide ==
    /\ pc = "build"
    /\ archive \in [version : {ARCHIVE_VERSION, Over32}, entries : {<<>>}]
    /\ file = NoFile
    /\ result = NoResult
    /\ tampers = 0
    /\ fs = WriteTree
    /\ job = IdleWrite

NextWide ==
    \/ AddEntry(WideEntriesPool)
    \/ WriteArchiveFile({<<47, 116, 47, 111>>, <<47, 116, 47, 110, 47, 111>>})
    \/ ReadArchive

SpecWide == InitWide /\ [][NextWide]_vars

----------------------------------------------------------------------------
(* Properties of writeArchive *)

\* The last call of writeArchive
lastRun == job.runs[Len(job.runs)]

wrote == pc = "written" /\ Len(job.runs) > 0

C27_NoFileOnRangeError ==
    (wrote /\ lastRun.error = RangeError) =>
        LET out == resolve(lastRun.output) IN
        /\ \A loc \in DOMAIN lastRun.before :
              Exists(fs, loc) /\ fs[loc] = lastRun.before[loc]
        /\ \A loc \in DOMAIN fs \ DOMAIN lastRun.before :
              fs[loc] = DirNode /\ Within(dirname(out), loc)
        /\ ~Exists(lastRun.before, out) => ~Exists(fs, out)

\* Two calls failed on a value out of range, one on an existing output file
\* and one below a directory that the call created.
C27_Witness ==
    /\ wrote
    /\ Len(job.runs) = 2
    /\ job.runs[1].error = RangeError
    /\ job.runs[2].error = RangeError
    /\ IsFile(job.runs[1].before, resolve(job.runs[1].output))
    /\ ~Exists(job.runs[2].before, dirname(resolve(job.runs[2].output)))
    /\ Exists(fs, dirname(resolve(job.runs[2].output)))

\* An entry with a field that its length prefix or its column cannot hold
Wide(entry) ==
    \/ byteLength(entry.path) > MaxU16
    \/ byteLength(entry.mimeType) > MaxU16
    \/ entry.size > U32Cap

C29_VersionNotValidated ==
    /\ (wrote /\ lastRun.error = "")
          => /\ file.exists
             /\ SubSeq(file.bytes, 5, 8) = U32LE(archive.version)
    /\ (pc = "read" /\ Len(job.runs) > 0 /\ lastRun.error = "")
          => /\ (result.status = "ok") <=> (archive.version = ARCHIVE_VERSION)
             /\ archive.version # ARCHIVE_VERSION
                   => /\ result.error = "Unsupported archive version"
                      /\ result.detail = archive.version

\* A file written with version 999 was handed to readArchive.
C29_Witness ==
    /\ pc = "read"
    /\ Len(job.runs) > 0
    /\ lastRun.error = ""
    /\ archive.version = 999
    /\ Len(archive.entries) > 0
    /\ result.status = "error"

====
